---- MODULE Spec2Model ----
(***************************************************************************)
(* news-agg ingestion core: the multi-source scheduler                     *)
(* (scheduler.py), the rate limiter (utils/rate_limit.py), the dead-link   *)
(* registry and article table (db.py) and the title dedup (text/dedup.py). *)
(*                                                                         *)
(* asyncio is cooperative: a task runs from one await to the next without  *)
(* interruption, so each action below is the code between two awaits of    *)
(* one task.  Time is counted in ticks of the rate-limit granularity.      *)
(***************************************************************************)
EXTENDS Integers, Sequences, FiniteSets, TLC

VARIABLES
    \* ---- wall clocks
    now,              \* time.monotonic(), in ticks
    today,            \* NOW() of the database, in days
    \* ---- IntelligentScheduler.sources : slug -> SourceState
    queue,            \* SourceState.queue (asyncio.Queue, FIFO)
    active_count,     \* SourceState.active_count
    items_scraped,    \* SourceState.items_scraped
    errors,           \* SourceState.errors
    discovery_done,   \* SourceState.discovery_done
    last_request,     \* SourceState.rate_limiter._last_request
    \* ---- worker tasks (run._worker coroutines)
    pc,               \* where each task is suspended
    cur,              \* the (state, item) a worker holds
    wake,             \* end of the asyncio.sleep the worker is in
    res,              \* what scrape_article_page returned to the worker
    cancelReq,        \* task.cancel() was called, CancelledError not yet delivered
    worker_tasks,     \* IntelligentScheduler._worker_tasks
    total_scraped,    \* IntelligentScheduler._total_scraped
    total_errors,     \* IntelligentScheduler._total_errors
    stopped,          \* IntelligentScheduler._stop_event
    db_lock,          \* IntelligentScheduler.db_lock (holder, 0 when free)
    \* ---- per-run dedup state handed to run()
    existing_urls,
    existing_titles,
    counts,
    \* ---- database tables
    articles,         \* articles rows, url UNIQUE
    dead_links,       \* dead_links rows, url UNIQUE
    \* ---- configuration chosen at start-up
    cfg,
    \* ---- history
    enqueued,         \* per source, the items put on its queue, in order
    dispatched,       \* per source, the items handed to workers, in order
    hist,             \* per finished item: what the scrape returned and how it ended
    \* ---- one RateLimiter with concurrent wait() callers
    rlDelay,          \* RateLimiter._delay, in ticks
    rlNow,            \* time.monotonic(), in ticks
    rlLast,           \* RateLimiter._last_request
    rlLock,           \* RateLimiter._lock: the caller holding it, 0 when free
    rlWaiters,        \* RateLimiter._lock._waiters, in arrival order
    rlPc,             \* where each caller of wait() is
    rlWake,           \* end of the asyncio.sleep a caller is in
    rlReturns,        \* the times at which wait() returned, in order
    \* ---- the dead-link queries asked on their own
    dlAnswer,         \* the last call made on dead_links and the set it returned
    \* ---- run_nid_sweep: one batch of _sweep_one tasks
    nidPc,            \* where each _sweep_one task is
    nidRes,           \* what scrape_article_page returned to the task
    nidFinal,         \* ScrapedArticle.final_url (page.url after redirects)
    nidSem,           \* permits of the semaphore in use
    nid404,           \* consecutive_404
    nidExisting,      \* existing_urls
    nidDead,          \* dead_urls
    nidLock,          \* db_lock of the sweep (holder, 0 when free)
    nidCounts,        \* inserted, skipped, not_found
    \* ---- _crawl_archive_pages: the sections of one source, page by page
    crPages,          \* the pages argument
    crSection,        \* index of the archive pattern being crawled
    crPage,           \* i of the loop over range(max_pages)
    crEmpty,          \* consecutive_empty
    crSeen,           \* seen_urls
    crLog,            \* what each page of the section so far gave
    crDone,           \* per section left: its pages and why the loop ended
    \* ---- run_ingest of one source, run after run on one database
    inRun,            \* the run in progress: its feed, browser and items_to_scrape
    inCounts,         \* counts of the run in progress
    inTitles,         \* existing_titles of the run in progress
    inSummary,        \* what the last finished run returned
    inTried,          \* per url, the scrapes attempted over all runs
    inFailed,         \* per url, the scrapes that gave nothing over all runs
    inFailDay,        \* per url, the day of its last scrape if that gave nothing, else 0
    inRuns,           \* the runs started
    \* ---- the pre-scrape filters of the discovery paths, each applied on its own
    flt,              \* per path: what was discovered and what goes on to be scraped
    \* ---- the scrape phase of run_backfill and run_date_sweep: one gather of _scrape_one
    bfPath,           \* which of the two functions runs
    bfBatch,          \* items_to_scrape (all_items in the date sweep)
    bfPc,             \* where each _scrape_one task is
    bfRes,            \* what scrape_article_page returned to the task
    bfSem,            \* permits of the semaphore in use
    bfLock,           \* db_lock (holder, 0 when free)
    bfExisting,       \* existing_urls, as far as the run adds to it
    bfCounts,         \* inserted, failed, no_date
    \* ---- text/dates.py: the date validator and the waterfall, called on their own
    dtNow,            \* datetime.now() as an instant, in half hours since 1970-01-01 UTC
    dtCall,           \* the function last called
    dtIn,             \* the datetimes it was given (one per waterfall level)
    dtOut,            \* what it returned
    \* ---- text/normalize.py: normalize_text called on its own
    txIn,             \* the text given
    txOut,            \* normalize_text(text)
    txAgain           \* normalize_text of that result

\* the variables of the rate limiter exercised on its own
limiter == <<rlDelay, rlNow, rlLast, rlLock, rlWaiters, rlPc, rlWake, rlReturns>>

\* the variables of the dead-link queries
registry == <<dlAnswer>>

\* the variables of the sequential-id sweep
sweep == <<nidPc, nidRes, nidFinal, nidSem, nid404, nidExisting, nidDead, nidLock,
           nidCounts>>

\* the variables of the archive crawl
crawl == <<crPages, crSection, crPage, crEmpty, crSeen, crLog, crDone>>

\* the variables of the single-source ingest runs
ingest == <<inRun, inCounts, inTitles, inSummary, inTried, inFailed, inFailDay, inRuns>>

\* the variables of the backfill scrape phase
fill == <<bfPath, bfBatch, bfPc, bfRes, bfSem, bfLock, bfExisting, bfCounts>>

\* the variables of the date functions
dates == <<dtNow, dtCall, dtIn, dtOut>>

\* the variables of the text normalization
texts == <<txIn, txOut, txAgain>>

\* the further code exercised on its own
others == <<fill, dates, texts>>

\* the discovery and run-level code exercised on its own
aside == <<crawl, ingest, flt, others>>

\* what no step of a scheduler run changes
env == <<cfg, limiter, registry, sweep, aside>>

\* the scheduler's own state
scheduler == <<now, queue, active_count, items_scraped, errors, discovery_done,
               last_request, pc, cur, wake, res, cancelReq, worker_tasks,
               total_scraped, total_errors, stopped, db_lock, existing_urls,
               existing_titles, counts, cfg, enqueued, dispatched, hist>>

\* the database
database == <<today, articles, dead_links>>

vars == <<now, today, queue, active_count, items_scraped, errors, discovery_done,
          last_request, pc, cur, wake, res, cancelReq, worker_tasks, total_scraped,
          total_errors, stopped, db_lock, existing_urls, existing_titles, counts,
          articles, dead_links, cfg, enqueued, dispatched, hist, limiter, registry,
          sweep, aside>>

----------------------------------------------------------------------------
\* Bounds of the model

MaxTime == 4
MaxDay == 31
RLMaxTime == 6
RLMaxCallers == 3
RLMaxDelay == 2
MaxRetry == 4
NidEnd == 3
NidConcurrency == 2
NidMax404 == 2

----------------------------------------------------------------------------
\* Small helpers

Max(a, b) == IF a >= b THEN a ELSE b

Min(a, b) == IF a <= b THEN a ELSE b

SetMin(S) == CHOOSE x \in S : \A y \in S : x <= y

Range(f) == {f[i] : i \in DOMAIN f}

RECURSIVE SelectSeqBy(_, _)
SelectSeqBy(seq, keep) ==
    IF seq = <<>> THEN <<>>
    ELSE IF Head(seq) \in keep
         THEN <<Head(seq)>> \o SelectSeqBy(Tail(seq), keep)
         ELSE SelectSeqBy(Tail(seq), keep)

----------------------------------------------------------------------------
\* Sources, candidate items and configuration

Sources == {"a", "b"}

\* self.sources is a dict: iteration follows registration order
SourceOrder == <<"a", "b">>

SourceIndex(s) == CHOOSE i \in DOMAIN SourceOrder : SourceOrder[i] = s

\* Raw titles, as sequences of code points
TitleEcon == <<"S", "r", "i", " ", "L", "a", "n", "k", "a", "'", "s", " ", "N", "e", "w", "s">>

TitleEconBang == TitleEcon \o <<"!">>

TitleShort == <<"N", "e", "w", "s", "!">>

TitleSport == <<"L", "a", "n", "k", "a", " ", "w", "i", "n", "s", " ", "a", "l", "l">>

\* Candidate items (RSSItem): source, link, title
ItemTable ==
    << [src |-> "a", link |-> "a/1", title |-> TitleEcon],
       [src |-> "a", link |-> "a/2", title |-> TitleEconBang],
       [src |-> "a", link |-> "a/3", title |-> TitleShort],
       [src |-> "b", link |-> "b/1", title |-> TitleSport],
       [src |-> "a", link |-> "a/4", title |-> TitleSport],
       [src |-> "a", link |-> "a/feed", title |-> TitleShort],
       [src |-> "a", link |-> "a/5", title |-> TitleShort] >>

Items == DOMAIN ItemTable

Urls == {ItemTable[i].link : i \in Items}

\* What discovery can return for a source (RSS feed or listing page)
Feeds(s) ==
    IF s = "a" THEN {<<1, 2, 3, 3, 7>>, <<3, 3>>}
    ELSE {<<4>>}

\* items[:limit]
Limit(feed, limit) == SubSeq(feed, 1, Min(Len(feed), limit))

\* register_source(source, rate_limit_ms, max_concurrency, priority) per source,
\* global_concurrency and the limit of items per source; rate limits in ticks
Configs ==
    { [rate_limit |-> [a |-> 1, b |-> 2], max_concurrency |-> [a |-> 1, b |-> 2],
       priority |-> [a |-> 10, b |-> 20], initial_concurrency |-> 1, limit |-> 2],
      [rate_limit |-> [a |-> 2, b |-> 1], max_concurrency |-> [a |-> 2, b |-> 1],
       priority |-> [a |-> 10, b |-> 10], initial_concurrency |-> 2, limit |-> 2] }

\* runs started with --concurrency above the pool's hard cap, or with a limit that
\* lets one source queue more than twice the workers
ConfigsWide ==
    { [rate_limit |-> [a |-> 1, b |-> 1], max_concurrency |-> [a |-> 3, b |-> 3],
       priority |-> [a |-> 10, b |-> 20], initial_concurrency |-> 3, limit |-> 1],
      [rate_limit |-> [a |-> 1, b |-> 1], max_concurrency |-> [a |-> 1, b |-> 1],
       priority |-> [a |-> 10, b |-> 20], initial_concurrency |-> 1, limit |-> 4] }

\* a run whose limit reaches the end of the longest feed
ConfigsFull ==
    { [rate_limit |-> [a |-> 1, b |-> 1], max_concurrency |-> [a |-> 2, b |-> 1],
       priority |-> [a |-> 10, b |-> 20], initial_concurrency |-> 1, limit |-> 5] }

\* IntelligentScheduler class attributes, scaled to the model's worker pool
MAX_WORKERS == 2

SCALE_UP_STEP == 2

\* task handles the model can tell apart
Workers == 1 .. (2 * MAX_WORKERS)

----------------------------------------------------------------------------
\* text/dedup.py

UpperCase == <<"L", "N", "S">>

LowerCase == <<"l", "n", "s">>

WordChars == {"a", "e", "i", "k", "l", "n", "r", "s", "w"}

\* str.lower() on one code point
Lower(c) ==
    IF \E i \in DOMAIN UpperCase : UpperCase[i] = c
    THEN LowerCase[CHOOSE i \in DOMAIN UpperCase : UpperCase[i] = c]
    ELSE c

\* re.sub(r"[^\w<ZWNJ><ZWJ>]", "", title): keep word characters (and the joiners)
IsWordChar(c) == c \in WordChars

StripNonWord(t) == SelectSeq(t, IsWordChar)

normalize_title(t) == StripNonWord([i \in DOMAIN t |-> Lower(t[i])])

\* the "len(norm_title) > 10" threshold of the dedup checks
TitleMinLen == 10

\* a title check without the length threshold
IsTitleDuplicateAnyLen(norm, titles) == norm # <<>> /\ norm \in titles

\* norm_title and len(norm_title) > 10 and norm_title in source_titles
IsTitleDuplicate(norm, titles) ==
    norm # <<>> /\ Len(norm) > TitleMinLen /\ norm \in titles

----------------------------------------------------------------------------
\* db.py: dead_links and articles

\* the retry schedule of get_dead_urls / get_all_dead_urls, in days
Backoff0 == 7

Backoff1 == 14

Backoff2 == 30

PermanentAfter == 3

\* a backoff that still holds on the day it ends
IsSuppressedInclusive(row, day) ==
    \/ row.retry_count >= PermanentAfter
    \/ (row.retry_count = 0 /\ row.first_failed_at + Backoff0 >= day)
    \/ (row.retry_count = 1 /\ row.first_failed_at + Backoff1 >= day)
    \/ (row.retry_count = 2 /\ row.first_failed_at + Backoff2 >= day)

\* WHERE clause shared by get_dead_urls and get_all_dead_urls
IsSuppressed(row, day) ==
    \/ row.retry_count >= PermanentAfter
    \/ (row.retry_count = 0 /\ row.first_failed_at + Backoff0 > day)
    \/ (row.retry_count = 1 /\ row.first_failed_at + Backoff1 > day)
    \/ (row.retry_count = 2 /\ row.first_failed_at + Backoff2 > day)

\* dead_links is a function url -> row; rows carry source_id
get_dead_urls(dl, day, source, urls) ==
    {u \in DOMAIN dl : dl[u].source_id = source /\ u \in urls /\ IsSuppressed(dl[u], day)}

get_all_dead_urls(dl, day, source) ==
    {u \in DOMAIN dl : dl[u].source_id = source /\ IsSuppressed(dl[u], day)}

\* an upsert that replaces the row on conflict instead of updating three columns
replace_dead_link(dl, day, source, url, error_type) ==
    [u \in DOMAIN dl \cup {url} |->
        IF u = url
        THEN [source_id |-> source, error_type |-> error_type, first_failed_at |-> day,
              last_checked_at |-> day,
              retry_count |-> IF url \in DOMAIN dl THEN dl[url].retry_count + 1 ELSE 0]
        ELSE dl[u]]

\* INSERT ... ON CONFLICT (url) DO UPDATE SET error_type, last_checked_at, retry_count + 1
record_dead_link(dl, day, source, url, error_type) ==
    IF url \in DOMAIN dl
    THEN [dl EXCEPT ![url] = [@ EXCEPT !.error_type = error_type,
                                       !.last_checked_at = day,
                                       !.retry_count = @ + 1]]
    ELSE [u \in DOMAIN dl \cup {url} |->
            IF u = url
            THEN [source_id |-> source, error_type |-> error_type, first_failed_at |-> day,
                  last_checked_at |-> day, retry_count |-> 0]
            ELSE dl[u]]

\* an UPDATE of the row where the code deletes it
mark_dead_link(dl, url) ==
    IF url \in DOMAIN dl THEN [dl EXCEPT ![url].retry_count = @ + 1] ELSE dl

\* DELETE FROM dead_links WHERE url = $1
remove_dead_link(dl, url) == [u \in DOMAIN dl \ {url} |-> dl[u]]

\* articles is a set of rows [url, source_id, title]; url is UNIQUE
ArticleUrls(arts) == {r.url : r \in arts}

\* INSERT ... ON CONFLICT (url) DO NOTHING RETURNING id: the new table
insert_article(arts, row) ==
    IF row.url \in ArticleUrls(arts) THEN arts ELSE arts \cup {row}

\* ... and whether an id came back
InsertReturnsId(arts, row) == row.url \notin ArticleUrls(arts)

get_existing_urls(arts, source, urls) ==
    {r.url : r \in {x \in arts : x.source_id = source /\ x.url \in urls}}

get_all_source_urls(arts, source) ==
    {r.url : r \in {x \in arts : x.source_id = source}}

\* get_recent_titles: the titles of the source's recent rows
get_recent_titles(arts, source) ==
    {r.title : r \in {x \in arts : x.source_id = source}}

----------------------------------------------------------------------------
\* utils/rate_limit.py

\* a sleep that ends one tick short of the delay
WaitSleepTruncated(delay, last, t) ==
    LET elapsed == t - last
    IN  IF elapsed < delay - 1 THEN delay - 1 - elapsed ELSE 0

\* RateLimiter.wait(): how long the caller sleeps under the limiter's lock
\*   elapsed = time.monotonic() - self._last_request
\*   if elapsed < self._delay: await asyncio.sleep(self._delay - elapsed)
WaitSleep(delay, last, t) ==
    LET elapsed == t - last
    IN  IF elapsed < delay THEN delay - elapsed ELSE 0

\* RateLimiter.time_until_ready(): called by _pick_next; the delay to the next slot,
\* never negative, without taking the slot
time_until_ready(delay, last, t) == Max(0, delay - (t - last))

----------------------------------------------------------------------------
\* scheduler.py: IntelligentScheduler._pick_next

NoItem == [src |-> "none", item |-> 0]

\* asyncio.sleep(0.05) is shorter than one tick
IDLE_SLEEP == 0

\* a test of the queues alone
AllQueuesEmpty == \A s \in Sources : queue[s] = <<>>

\* all_done after the loop over self.sources.values()
AllDone == \A s \in Sources : queue[s] = <<>> /\ discovery_done[s]

\* the sources with queued items, whatever their active_count
CandidatesIgnoringCap == {s \in Sources : queue[s] # <<>>}

\* the sources appended to candidates
Candidates ==
    {s \in Sources : queue[s] # <<>> /\ active_count[s] < cfg.max_concurrency[s]}

\* a peek that reports the time since the slot came free as a negative delay
WaitTimeSigned(s) == cfg.rate_limit[s] - (now - last_request[s])

\* wait_time = state.rate_limiter.time_until_ready()
WaitTime(s) == time_until_ready(cfg.rate_limit[s], last_request[s], now)

\* a readiness test that never passes, and one that passes a tick early
IsReadyStrict(w) == w < 0

IsReadyEarly(w) == w <= 1

\* ready = [(s, w) for s, w in candidates if w <= 0]
IsReady(w) == w <= 0

Ready == {s \in Candidates : IsReady(WaitTime(s))}

\* a sort on priority alone
SortsBeforeByPriority(s, t) ==
    \/ cfg.priority[s] < cfg.priority[t]
    \/ /\ cfg.priority[s] = cfg.priority[t]
       /\ SourceIndex(s) < SourceIndex(t)

\* ready.sort(key=lambda x: (x[0].priority, x[0].items_scraped)) is stable: equal keys
\* keep the order of self.sources
SortsBefore(s, t) ==
    \/ cfg.priority[s] < cfg.priority[t]
    \/ /\ cfg.priority[s] = cfg.priority[t]
       /\ \/ items_scraped[s] < items_scraped[t]
          \/ /\ items_scraped[s] = items_scraped[t]
             /\ SourceIndex(s) < SourceIndex(t)

\* state = ready[0][0]
PickedSource == CHOOSE s \in Ready : \A t \in Ready \ {s} : SortsBefore(s, t)

\* candidates.sort(key=lambda x: x[1]); sleep_time = candidates[0][1]
ShortestCooldown == SetMin({WaitTime(s) : s \in Candidates})

\* taking the newest entry instead of the oldest
DequeueNewest(q) == [item |-> q[Len(q)], rest |-> SubSeq(q, 1, Len(q) - 1)]

\* item = state.queue.get_nowait()
Dequeue(q) == [item |-> Head(q), rest |-> Tail(q)]

Runnable(w) == ~cancelReq[w]

\* if all_done: return None; the worker returns
PickAllDone(w) ==
    /\ pc[w] = "pick" /\ Runnable(w)
    /\ AllDone
    /\ pc' = [pc EXCEPT ![w] = "done"]
    /\ UNCHANGED <<now, today, queue, active_count, items_scraped, errors,
                   discovery_done, last_request, cur, wake, res, cancelReq,
                   worker_tasks, total_scraped, total_errors, stopped, db_lock,
                   existing_urls, existing_titles, counts, articles, dead_links, env,
                   enqueued, dispatched, hist>>

\* if not candidates: sleep_time = 0.05, slept outside the lock
PickIdleSleep(w) ==
    /\ pc[w] = "pick" /\ Runnable(w)
    /\ ~AllDone
    /\ Candidates = {}
    /\ pc' = [pc EXCEPT ![w] = "sleep"]
    /\ wake' = [wake EXCEPT ![w] = now + IDLE_SLEEP]
    /\ UNCHANGED <<now, today, queue, active_count, items_scraped, errors,
                   discovery_done, last_request, cur, res, cancelReq,
                   worker_tasks, total_scraped, total_errors, stopped, db_lock,
                   existing_urls, existing_titles, counts, articles, dead_links, env,
                   enqueued, dispatched, hist>>

\* candidates but none ready: sleep the shortest cooldown outside the lock
PickCooldownSleep(w) ==
    /\ pc[w] = "pick" /\ Runnable(w)
    /\ ~AllDone
    /\ Candidates # {}
    /\ Ready = {}
    /\ pc' = [pc EXCEPT ![w] = "sleep"]
    /\ wake' = [wake EXCEPT ![w] = now + ShortestCooldown]
    /\ UNCHANGED <<now, today, queue, active_count, items_scraped, errors,
                   discovery_done, last_request, cur, res, cancelReq,
                   worker_tasks, total_scraped, total_errors, stopped, db_lock,
                   existing_urls, existing_titles, counts, articles, dead_links, env,
                   enqueued, dispatched, hist>>

\* a ready source: await state.rate_limiter.wait(), get_nowait(), active_count += 1,
\* return (state, item); the worker goes on into scrape_article_page
PickDispatch(w) ==
    /\ pc[w] = "pick" /\ Runnable(w)
    /\ ~AllDone
    /\ Ready # {}
    /\ LET s == PickedSource
           slept == WaitSleep(cfg.rate_limit[s], last_request[s], now)
           d == Dequeue(queue[s])
       IN  /\ now + slept <= MaxTime
           /\ now' = now + slept
           /\ last_request' = [last_request EXCEPT ![s] = now + slept]
           /\ queue' = [queue EXCEPT ![s] = d.rest]
           /\ active_count' = [active_count EXCEPT ![s] = @ + 1]
           /\ cur' = [cur EXCEPT ![w] = [src |-> s, item |-> d.item]]
           /\ dispatched' = [dispatched EXCEPT ![s] = Append(@, d.item)]
    /\ pc' = [pc EXCEPT ![w] = "scrape"]
    /\ UNCHANGED <<today, items_scraped, errors, discovery_done, wake, res, cancelReq,
                   worker_tasks, total_scraped, total_errors, stopped, db_lock,
                   existing_urls, existing_titles, counts, articles, dead_links, env,
                   enqueued, hist>>

\* asyncio.sleep(sleep_time) is over; back to the top of the while loop
Wake(w) ==
    /\ pc[w] = "sleep" /\ Runnable(w)
    /\ now >= wake[w]
    /\ pc' = [pc EXCEPT ![w] = "pick"]
    /\ wake' = [wake EXCEPT ![w] = 0]
    /\ UNCHANGED <<now, today, queue, active_count, items_scraped, errors,
                   discovery_done, last_request, cur, res, cancelReq,
                   worker_tasks, total_scraped, total_errors, stopped, db_lock,
                   existing_urls, existing_titles, counts, articles, dead_links, env,
                   enqueued, dispatched, hist>>

\* the monotonic clock advances
Tick ==
    /\ now < MaxTime
    /\ ~stopped
    /\ now' = now + 1
    /\ UNCHANGED <<today, queue, active_count, items_scraped, errors,
                   discovery_done, last_request, pc, cur, wake, res, cancelReq,
                   worker_tasks, total_scraped, total_errors, stopped, db_lock,
                   existing_urls, existing_titles, counts, articles, dead_links, env,
                   enqueued, dispatched, hist>>

----------------------------------------------------------------------------
\* scheduler.py: run._worker and _scrape_and_insert

Link(w) == ItemTable[cur[w].item].link

Title(w) == ItemTable[cur[w].item].title

\* what scrape_article_page returns: None (navigation failed, interstitial not
\* resolved, content under 100 characters, any exception), or a ScrapedArticle with or
\* without published_at.  It has no return of a ScrapeError.
ScrapeResults == {"none", "nodate", "ok"}

\* finally: state.active_count -= 1; state.items_scraped += 1
WorkerFinally(w, end) ==
    /\ hist' = hist \cup {[item |-> cur[w].item, scraped |-> res[w], end |-> end]}
    /\ active_count' = [active_count EXCEPT ![cur[w].src] = @ - 1]
    /\ items_scraped' = [items_scraped EXCEPT ![cur[w].src] = @ + 1]
    /\ cur' = [cur EXCEPT ![w] = NoItem]
    /\ res' = [res EXCEPT ![w] = "none"]

Bump(c, s, field) == [c EXCEPT ![s][field] = @ + 1]

\* scraped is None or too short: state.errors += 1; return (no dead-link is recorded)
ScrapeFailed(w) ==
    /\ pc[w] = "scrape" /\ Runnable(w)
    /\ errors' = [errors EXCEPT ![cur[w].src] = @ + 1]
    /\ WorkerFinally(w, "error")
    /\ pc' = [pc EXCEPT ![w] = "pick"]
    /\ UNCHANGED <<now, today, queue, discovery_done, last_request, wake, cancelReq,
                   worker_tasks, total_scraped, total_errors, stopped, db_lock,
                   existing_urls, existing_titles, counts, articles, dead_links, env,
                   enqueued, dispatched>>

\* a ScrapedArticle came back: await remove_dead_link(self.pool, item.link)
ScrapeSucceeded(w) ==
    /\ pc[w] = "scrape" /\ Runnable(w)
    /\ \E r \in ScrapeResults \ {"none"} : res' = [res EXCEPT ![w] = r]
    /\ pc' = [pc EXCEPT ![w] = "rm"]
    /\ UNCHANGED <<now, today, queue, active_count, items_scraped, errors,
                   discovery_done, last_request, cur, wake, cancelReq,
                   worker_tasks, total_scraped, total_errors, stopped, db_lock,
                   existing_urls, existing_titles, counts, articles, dead_links, env,
                   enqueued, dispatched, hist>>

\* the title check made under db_lock
DuplicateUnderLock(w) ==
    IsTitleDuplicate(normalize_title(Title(w)), existing_titles[cur[w].src])

\* remove_dead_link is done; not scraped.published_at: skipped_no_date, return
RemovedNoDate(w) ==
    /\ pc[w] = "rm" /\ Runnable(w)
    /\ res[w] = "nodate"
    /\ dead_links' = remove_dead_link(dead_links, Link(w))
    /\ counts' = Bump(counts, cur[w].src, "skipped_no_date")
    /\ WorkerFinally(w, "no_date")
    /\ pc' = [pc EXCEPT ![w] = "pick"]
    /\ UNCHANGED <<now, today, queue, errors, discovery_done, last_request, wake,
                   cancelReq, worker_tasks, total_scraped, total_errors, stopped,
                   db_lock, existing_urls, existing_titles, articles, env,
                   enqueued, dispatched>>

\* remove_dead_link is done; db_lock is held by another worker: wait for it
RemovedLockBusy(w) ==
    /\ pc[w] = "rm" /\ Runnable(w)
    /\ res[w] = "ok"
    /\ db_lock # 0
    /\ dead_links' = remove_dead_link(dead_links, Link(w))
    /\ pc' = [pc EXCEPT ![w] = "lockwait"]
    /\ UNCHANGED <<now, today, queue, active_count, items_scraped, errors,
                   discovery_done, last_request, cur, wake, res, cancelReq,
                   worker_tasks, total_scraped, total_errors, stopped, db_lock,
                   existing_urls, existing_titles, counts, articles, env,
                   enqueued, dispatched, hist>>

\* under db_lock the normalized title is already known: skipped_duplicate, return
LockedDuplicate(w) ==
    /\ DuplicateUnderLock(w)
    /\ counts' = Bump(counts, cur[w].src, "skipped_duplicate")
    /\ WorkerFinally(w, "duplicate")
    /\ pc' = [pc EXCEPT ![w] = "pick"]
    /\ UNCHANGED <<now, today, queue, errors, discovery_done, last_request, wake,
                   cancelReq, worker_tasks, total_scraped, total_errors, stopped,
                   db_lock, existing_urls, existing_titles, articles, env,
                   enqueued, dispatched>>

\* an insert awaited after the lock has been given back
LockedInsertUnlocked(w) ==
    /\ ~DuplicateUnderLock(w)
    /\ pc' = [pc EXCEPT ![w] = "insert"]
    /\ UNCHANGED <<now, today, queue, active_count, items_scraped, errors,
                   discovery_done, last_request, cur, wake, res, cancelReq,
                   worker_tasks, total_scraped, total_errors, stopped, db_lock,
                   existing_urls, existing_titles, counts, articles, env,
                   enqueued, dispatched, hist>>

\* under db_lock the title is new: await insert_article(self.pool, article)
LockedInsert(w) ==
    /\ ~DuplicateUnderLock(w)
    /\ db_lock' = w
    /\ pc' = [pc EXCEPT ![w] = "insert"]
    /\ UNCHANGED <<now, today, queue, active_count, items_scraped, errors,
                   discovery_done, last_request, cur, wake, res, cancelReq,
                   worker_tasks, total_scraped, total_errors, stopped,
                   existing_urls, existing_titles, counts, articles, env,
                   enqueued, dispatched, hist>>

\* remove_dead_link is done and db_lock is free
RemovedDuplicate(w) ==
    /\ pc[w] = "rm" /\ Runnable(w)
    /\ res[w] = "ok"
    /\ db_lock = 0
    /\ dead_links' = remove_dead_link(dead_links, Link(w))
    /\ LockedDuplicate(w)

RemovedInsert(w) ==
    /\ pc[w] = "rm" /\ Runnable(w)
    /\ res[w] = "ok"
    /\ db_lock = 0
    /\ dead_links' = remove_dead_link(dead_links, Link(w))
    /\ LockedInsert(w)

\* db_lock was released and this waiter gets it
AcquiredDuplicate(w) ==
    /\ pc[w] = "lockwait" /\ Runnable(w)
    /\ db_lock = 0
    /\ UNCHANGED dead_links
    /\ LockedDuplicate(w)

AcquiredInsert(w) ==
    /\ pc[w] = "lockwait" /\ Runnable(w)
    /\ db_lock = 0
    /\ UNCHANGED dead_links
    /\ LockedInsert(w)

ArticleRow(w) == [url |-> Link(w), source_id |-> cur[w].src, title |-> Title(w)]

\* insert_article returned an id: inserted, remember title and url
InsertedNew(w) ==
    /\ pc[w] = "insert" /\ Runnable(w)
    /\ InsertReturnsId(articles, ArticleRow(w))
    /\ articles' = insert_article(articles, ArticleRow(w))
    /\ counts' = Bump(counts, cur[w].src, "inserted")
    /\ existing_titles' = [existing_titles EXCEPT
                             ![cur[w].src] = @ \cup {normalize_title(Title(w))}]
    /\ existing_urls' = [existing_urls EXCEPT ![cur[w].src] = @ \cup {Link(w)}]
    /\ db_lock' = 0
    /\ WorkerFinally(w, "inserted")
    /\ pc' = [pc EXCEPT ![w] = "pick"]
    /\ UNCHANGED <<now, today, queue, errors, discovery_done, last_request, wake,
                   cancelReq, worker_tasks, total_scraped, total_errors, stopped,
                   dead_links, env, enqueued, dispatched>>

\* insert_article returned None (ON CONFLICT DO NOTHING): skipped_duplicate
InsertedConflict(w) ==
    /\ pc[w] = "insert" /\ Runnable(w)
    /\ ~InsertReturnsId(articles, ArticleRow(w))
    /\ counts' = Bump(counts, cur[w].src, "skipped_duplicate")
    /\ db_lock' = 0
    /\ WorkerFinally(w, "conflict")
    /\ pc' = [pc EXCEPT ![w] = "pick"]
    /\ UNCHANGED <<now, today, queue, errors, discovery_done, last_request, wake,
                   cancelReq, worker_tasks, total_scraped, total_errors, stopped,
                   existing_urls, existing_titles, articles, dead_links, env,
                   enqueued, dispatched>>

----------------------------------------------------------------------------
\* A cancelled worker: task.cancel() makes the task's current await raise
\* CancelledError; the worker's finally block still runs.  The database statement the
\* task was waiting for may or may not have been executed by the server.

CancelFrame ==
    UNCHANGED <<now, today, queue, errors, discovery_done, last_request,
                worker_tasks, total_scraped, total_errors, stopped,
                existing_urls, existing_titles, counts, env,
                enqueued, dispatched>>

TaskCancelled(w) ==
    /\ pc' = [pc EXCEPT ![w] = "done"]
    /\ cancelReq' = [cancelReq EXCEPT ![w] = FALSE]
    /\ wake' = [wake EXCEPT ![w] = 0]

\* cancelled before its first step, or inside asyncio.sleep
CancelledIdle(w) ==
    /\ cancelReq[w]
    /\ pc[w] \in {"pick", "sleep"}
    /\ TaskCancelled(w)
    /\ UNCHANGED <<active_count, items_scraped, cur, res, db_lock, articles, dead_links,
                   hist>>
    /\ CancelFrame

\* cancelled inside scrape_article_page or while waiting for db_lock
CancelledScraping(w) ==
    /\ cancelReq[w]
    /\ pc[w] \in {"scrape", "lockwait"}
    /\ TaskCancelled(w)
    /\ WorkerFinally(w, "cancelled")
    /\ UNCHANGED <<db_lock, articles, dead_links>>
    /\ CancelFrame

\* cancelled inside remove_dead_link
CancelledRemoving(w) ==
    /\ cancelReq[w]
    /\ pc[w] = "rm"
    /\ TaskCancelled(w)
    /\ WorkerFinally(w, "cancelled")
    /\ \/ dead_links' = remove_dead_link(dead_links, Link(w))
       \/ UNCHANGED dead_links
    /\ UNCHANGED <<db_lock, articles>>
    /\ CancelFrame

\* cancelled inside insert_article: db_lock is released by the async with
CancelledInserting(w) ==
    /\ cancelReq[w]
    /\ pc[w] = "insert"
    /\ TaskCancelled(w)
    /\ WorkerFinally(w, "cancelled")
    /\ \/ articles' = insert_article(articles, ArticleRow(w))
       \/ UNCHANGED articles
    /\ db_lock' = 0
    /\ UNCHANGED dead_links
    /\ CancelFrame

----------------------------------------------------------------------------
\* A worker whose item raises.  _worker wraps _scrape_and_insert in try/finally with no
\* except: the finally block runs and the exception ends the task.  run() collects it
\* with gather(return_exceptions=True).

\* create_context (or any await before the page is loaded) raises
ScrapeRaised(w) ==
    /\ pc[w] = "scrape" /\ Runnable(w)
    /\ TaskCancelled(w)
    /\ WorkerFinally(w, "raised")
    /\ UNCHANGED <<db_lock, articles, dead_links>>
    /\ CancelFrame

\* insert_article raises (the server rejects the statement): db_lock is released by the
\* async with on the way out
InsertRaised(w) ==
    /\ pc[w] = "insert" /\ Runnable(w)
    /\ TaskCancelled(w)
    /\ WorkerFinally(w, "raised")
    /\ db_lock' = 0
    /\ UNCHANGED <<articles, dead_links>>
    /\ CancelFrame

----------------------------------------------------------------------------
\* scheduler.py: run and _autoscaler

IsLive(w) == pc[w] \notin {"none", "done"}

\* _queue_depth
QueueDepth == Len(queue["a"]) + Len(queue["b"])

\* _active_workers: sum(1 for t in self._worker_tasks if not t.done())
LiveTasks(tasks) == {i \in DOMAIN tasks : IsLive(tasks[i])}

ActiveWorkers == Cardinality(LiveTasks(worker_tasks))

SumScraped == items_scraped["a"] + items_scraped["b"]

SumErrors == errors["a"] + errors["b"]

\* error_rate = recent_errors / max(recent_total, 1) >= ERROR_RATE_BACKOFF (0.3)
ErrorRateHigh ==
    10 * (SumErrors - total_errors) >= 3 * Max(SumScraped - total_scraped, 1)

\* a scale-down without the floor of one worker
ScaleDownToNone(active) == 0

\* target = max(1, active // 2)
ScaleDownTarget(active) == Max(1, active \div 2)

\* for task in reversed(self._worker_tasks): cancel the newest live tasks while
\* active > target
NewestLive(n) ==
    {worker_tasks[i] : i \in {j \in LiveTasks(worker_tasks) :
        Cardinality({k \in LiveTasks(worker_tasks) : k > j}) < n}}

\* add = min(self.SCALE_UP_STEP, self.MAX_WORKERS - active)
ScaleUpBy(active) == Min(SCALE_UP_STEP, MAX_WORKERS - active)

FreeHandles == {w \in Workers : pc[w] = "none"}

RECURSIVE Smallest(_, _)
Smallest(S, n) ==
    IF n = 0 \/ S = {} THEN <<>>
    ELSE <<SetMin(S)>> \o Smallest(S \ {SetMin(S)}, n - 1)

\* self._worker_tasks = [t for t in self._worker_tasks if not t.done()]
Prune(tasks, done) == SelectSeqBy(tasks, Range(tasks) \ done)

DoneTasks == {w \in Workers : pc[w] = "done"}

AutoscaleFrame ==
    /\ total_scraped' = SumScraped
    /\ total_errors' = SumErrors
    /\ UNCHANGED <<now, today, queue, active_count, items_scraped, errors,
                   discovery_done, last_request, cur, wake, res, stopped, db_lock,
                   existing_urls, existing_titles, counts, articles, dead_links, env,
                   enqueued, dispatched, hist>>

\* error_rate >= 0.3 and active > 1: cancel the newest workers down to the target
AutoscaleDown ==
    /\ ~stopped
    /\ ErrorRateHigh /\ ActiveWorkers > 1
    /\ LET victims == NewestLive(ActiveWorkers - ScaleDownTarget(ActiveWorkers))
       IN  cancelReq' = [w \in Workers |-> cancelReq[w] \/ w \in victims]
    /\ worker_tasks' = Prune(worker_tasks, DoneTasks)
    /\ pc' = [w \in Workers |-> IF w \in DoneTasks THEN "none" ELSE pc[w]]
    /\ AutoscaleFrame

\* queue_depth > active * 2 and active < MAX_WORKERS: spawn more workers
AutoscaleUp ==
    /\ ~stopped
    /\ ~(ErrorRateHigh /\ ActiveWorkers > 1)
    /\ QueueDepth > ActiveWorkers * 2 /\ ActiveWorkers < MAX_WORKERS
    /\ LET add == ScaleUpBy(ActiveWorkers)
           fresh == Smallest(FreeHandles, add)
       IN  /\ add > 0
           /\ Len(fresh) = add
           /\ worker_tasks' = Prune(worker_tasks, DoneTasks) \o fresh
           /\ pc' = [w \in Workers |->
                       IF w \in Range(fresh) THEN "pick"
                       ELSE IF w \in DoneTasks THEN "none" ELSE pc[w]]
    /\ UNCHANGED cancelReq
    /\ AutoscaleFrame

\* neither: only the counters are refreshed and finished tasks pruned
AutoscaleHold ==
    /\ ~stopped
    /\ ~(ErrorRateHigh /\ ActiveWorkers > 1)
    /\ ~(QueueDepth > ActiveWorkers * 2 /\ ActiveWorkers < MAX_WORKERS)
    /\ worker_tasks' = Prune(worker_tasks, DoneTasks)
    /\ pc' = [w \in Workers |-> IF w \in DoneTasks THEN "none" ELSE pc[w]]
    /\ UNCHANGED cancelReq
    /\ AutoscaleFrame

\* a run() that gathers the workers it started itself once, without looking at
\* _worker_tasks again
RunEndAfterFirstGather ==
    /\ ~stopped
    /\ \A w \in 1 .. cfg.initial_concurrency : ~IsLive(w)
    /\ stopped' = TRUE
    /\ UNCHANGED <<now, today, queue, active_count, items_scraped, errors,
                   discovery_done, last_request, pc, cur, wake, res, cancelReq,
                   worker_tasks, total_scraped, total_errors, db_lock,
                   existing_urls, existing_titles, counts, articles, dead_links, env,
                   enqueued, dispatched, hist>>

\* run(): no task of _worker_tasks is alive any more: _stop_event.set(), the
\* autoscaler is cancelled
RunEnd ==
    /\ ~stopped
    /\ ActiveWorkers = 0
    /\ stopped' = TRUE
    /\ UNCHANGED <<now, today, queue, active_count, items_scraped, errors,
                   discovery_done, last_request, pc, cur, wake, res, cancelReq,
                   worker_tasks, total_scraped, total_errors, db_lock,
                   existing_urls, existing_titles, counts, articles, dead_links, env,
                   enqueued, dispatched, hist>>

----------------------------------------------------------------------------
\* pipeline.py: _ingest_interleaved._discover_and_enqueue (backfill.py:
\* _backfill_archive_interleaved._discover_archive has the same shape)

\* _should_skip_url(item.link)
SkipUrls == {"a/feed"}

ShouldSkipUrl(u) == u \in SkipUrls

Links(feed) == {ItemTable[feed[i]].link : i \in DOMAIN feed}

\* titles = {normalize_title(t) for t in recent_raw if len(normalize_title(t)) > 10}
RecentTitleSet(arts, s) ==
    {normalize_title(t) : t \in {x \in get_recent_titles(arts, s) :
                                    Len(normalize_title(x)) > TitleMinLen}}

\* the items that pass the filter loop
PassesFilter(i, existing, dead, titles) ==
    /\ ItemTable[i].link \notin existing
    /\ ItemTable[i].link \notin dead
    /\ ~IsTitleDuplicate(normalize_title(ItemTable[i].title), titles)
    /\ ~ShouldSkipUrl(ItemTable[i].link)

Filtered(feed, existing, dead, titles) ==
    SelectSeqBy(feed, {i \in Items : PassesFilter(i, existing, dead, titles)})

\* scheduler.enqueue(slug, filtered): put every item, in order
EnqueueAll(q, items) == q \o items

\* discovery found items: dedup state is set up, the new ones are enqueued, and the
\* finally block marks discovery done
DiscoverEnqueue(s) ==
    /\ ~discovery_done[s]
    /\ ~stopped
    /\ \E feed \in {Limit(f, cfg.limit) : f \in Feeds(s)} :
         LET existing == get_existing_urls(articles, s, Links(feed))
             dead == get_dead_urls(dead_links, today, s, Links(feed))
             titles == RecentTitleSet(articles, s)
             filtered == Filtered(feed, existing, dead, titles)
         IN  /\ existing_urls' = [existing_urls EXCEPT ![s] = existing]
             /\ existing_titles' = [existing_titles EXCEPT ![s] = titles]
             /\ counts' = [counts EXCEPT ![s] =
                   [inserted |-> 0, skipped_no_date |-> 0, skipped_duplicate |-> 0]]
             /\ queue' = [queue EXCEPT ![s] = EnqueueAll(@, filtered)]
             /\ enqueued' = [enqueued EXCEPT ![s] = @ \o filtered]
    /\ discovery_done' = [discovery_done EXCEPT ![s] = TRUE]
    /\ UNCHANGED <<now, today, active_count, items_scraped, errors, last_request,
                   pc, cur, wake, res, cancelReq, worker_tasks, total_scraped,
                   total_errors, stopped, db_lock, articles, dead_links, env,
                   dispatched, hist>>

\* a discovery whose exception is not caught: the finally block still marks the
\* source, then the exception leaves asyncio.gather and ends the run
DiscoverRaisedUncaught(s) ==
    /\ ~discovery_done[s]
    /\ ~stopped
    /\ discovery_done' = [discovery_done EXCEPT ![s] = TRUE]
    /\ stopped' = TRUE
    /\ UNCHANGED <<now, today, queue, active_count, items_scraped, errors,
                   last_request, pc, cur, wake, res, cancelReq, worker_tasks,
                   total_scraped, total_errors, db_lock, existing_urls,
                   existing_titles, counts, articles, dead_links, env,
                   enqueued, dispatched, hist>>

\* discovery found nothing or raised: only mark_discovery_done(slug)
DiscoverNothing(s) ==
    /\ ~discovery_done[s]
    /\ ~stopped
    /\ discovery_done' = [discovery_done EXCEPT ![s] = TRUE]
    /\ UNCHANGED <<now, today, queue, active_count, items_scraped, errors,
                   last_request, pc, cur, wake, res, cancelReq, worker_tasks,
                   total_scraped, total_errors, stopped, db_lock, existing_urls,
                   existing_titles, counts, articles, dead_links, env,
                   enqueued, dispatched, hist>>

----------------------------------------------------------------------------
\* utils/rate_limit.py exercised on its own: RLCallers tasks call wait() on one
\* RateLimiter again and again

RLCallers == 1 .. RLMaxCallers

RLDelays == 1 .. RLMaxDelay

LimiterUnused ==
    /\ rlDelay = 1
    /\ rlNow = 0
    /\ rlLast = 0
    /\ rlLock = 0
    /\ rlWaiters = <<>>
    /\ rlPc = [c \in RLCallers |-> "out"]
    /\ rlWake = [c \in RLCallers |-> 0]
    /\ rlReturns = <<>>

\* __init__: _last_request = 0.0 and a free lock; the monotonic clock may stand
\* anywhere at the first call
LimiterStart ==
    /\ rlDelay \in RLDelays
    /\ rlNow \in 0 .. 2
    /\ rlLast = 0
    /\ rlLock = 0
    /\ rlWaiters = <<>>
    /\ rlPc = [c \in RLCallers |-> "out"]
    /\ rlWake = [c \in RLCallers |-> 0]
    /\ rlReturns = <<>>

\* the lock passes to the longest waiting caller, or becomes free
RLRelease ==
    IF rlWaiters = <<>>
    THEN /\ rlLock' = 0
         /\ UNCHANGED rlWaiters
    ELSE /\ rlLock' = Head(rlWaiters)
         /\ rlWaiters' = Tail(rlWaiters)

\* self._last_request = time.monotonic(); the async with block ends, wait() returns
RLStampAndReturn(c) ==
    /\ rlLast' = rlNow
    /\ rlReturns' = Append(rlReturns, rlNow)
    /\ rlPc' = [rlPc EXCEPT ![c] = "out"]
    /\ RLRelease

\* inside the lock, elapsed >= _delay: no sleep
RLPass(c) ==
    /\ WaitSleep(rlDelay, rlLast, rlNow) = 0
    /\ RLStampAndReturn(c)
    /\ UNCHANGED <<rlDelay, rlNow, rlWake>>

\* inside the lock, elapsed < _delay: await asyncio.sleep(_delay - elapsed)
RLSleep(c) ==
    /\ WaitSleep(rlDelay, rlLast, rlNow) > 0
    /\ rlWake' = [rlWake EXCEPT ![c] = rlNow + WaitSleep(rlDelay, rlLast, rlNow)]
    /\ rlPc' = [rlPc EXCEPT ![c] = "sleep"]
    /\ UNCHANGED <<rlDelay, rlNow, rlLast, rlReturns>>

\* wait() is called with the lock free and nobody queued: the lock is taken at once
RLCallPass(c) ==
    /\ rlPc[c] = "out" /\ rlLock = 0
    /\ RLPass(c)
    /\ UNCHANGED <<scheduler, database, registry, sweep, aside>>

RLCallSleep(c) ==
    /\ rlPc[c] = "out" /\ rlLock = 0
    /\ RLSleep(c)
    /\ rlLock' = c
    /\ UNCHANGED <<rlWaiters, scheduler, database, registry, sweep, aside>>

\* wait() is called while the lock is held: the caller queues behind the others
RLCallQueue(c) ==
    /\ rlPc[c] = "out" /\ rlLock # 0
    /\ rlWaiters' = Append(rlWaiters, c)
    /\ rlPc' = [rlPc EXCEPT ![c] = "queued"]
    /\ UNCHANGED <<rlDelay, rlNow, rlLast, rlLock, rlWake, rlReturns, scheduler, database,
                   registry, sweep, aside>>

\* a queued caller was handed the lock and runs
RLResumePass(c) ==
    /\ rlPc[c] = "queued" /\ rlLock = c
    /\ RLPass(c)
    /\ UNCHANGED <<scheduler, database, registry, sweep, aside>>

RLResumeSleep(c) ==
    /\ rlPc[c] = "queued" /\ rlLock = c
    /\ RLSleep(c)
    /\ UNCHANGED <<rlLock, rlWaiters, scheduler, database, registry, sweep, aside>>

\* asyncio.sleep is over (the task may resume late)
RLWakeUp(c) ==
    /\ rlPc[c] = "sleep" /\ rlNow >= rlWake[c]
    /\ RLStampAndReturn(c)
    /\ UNCHANGED <<rlDelay, rlNow, rlWake, scheduler, database, registry, sweep, aside>>

RLTick ==
    /\ rlNow < RLMaxTime
    /\ rlNow' = rlNow + 1
    /\ UNCHANGED <<rlDelay, rlLast, rlLock, rlWaiters, rlPc, rlWake, rlReturns,
                   scheduler, database, registry, sweep, aside>>

NextRL ==
    \/ RLTick
    \/ \E c \in RLCallers : RLCallPass(c)
    \/ \E c \in RLCallers : RLCallSleep(c)
    \/ \E c \in RLCallers : RLCallQueue(c)
    \/ \E c \in RLCallers : RLResumePass(c)
    \/ \E c \in RLCallers : RLResumeSleep(c)
    \/ \E c \in RLCallers : RLWakeUp(c)

\* rows and tables of dead_links

\* the day of the run
RunDay == 10

DeadRow(s, first_failed, retries) ==
    [source_id |-> s, error_type |-> "timeout", first_failed_at |-> first_failed,
     last_checked_at |-> first_failed, retry_count |-> retries]

NoDeadLinks == [u \in {} |-> DeadRow("a", 0, 0)]

----------------------------------------------------------------------------
\* db.py get_dead_urls / get_all_dead_urls asked on their own, over the tables that
\* record_dead_link can have left and over the days that pass

RegistryUrls == {"a/1", "b/1"}

\* the first day of the registry's history
FirstDay == 1

RegistryRows == {DeadRow(s, FirstDay, r) : s \in Sources, r \in 0 .. MaxRetry}

RegistryTables ==
    UNION {[U -> RegistryRows] : U \in SUBSET RegistryUrls}

NoAnswer == [kind |-> "none", source |-> "a", among |-> {}, urls |-> {}]

RegistryUnused == dlAnswer = NoAnswer

RegistryStart ==
    /\ today = FirstDay
    /\ articles = {}
    /\ dead_links \in RegistryTables
    /\ dlAnswer = NoAnswer

\* NOW() of the database moves on
DLDayPasses ==
    /\ today < MaxDay
    /\ today' = today + 1
    /\ UNCHANGED <<articles, dead_links, dlAnswer, scheduler, limiter, sweep, aside>>

\* await get_dead_urls(pool, source_id, urls)
DLQuery(s, among) ==
    /\ dlAnswer' = [kind |-> "some", source |-> s, among |-> among,
                    urls |-> get_dead_urls(dead_links, today, s, among)]
    /\ UNCHANGED <<database, scheduler, limiter, sweep, aside>>

\* await get_all_dead_urls(pool, source_id)
DLQueryAll(s) ==
    /\ dlAnswer' = [kind |-> "all", source |-> s, among |-> DOMAIN dead_links,
                    urls |-> get_all_dead_urls(dead_links, today, s)]
    /\ UNCHANGED <<database, scheduler, limiter, sweep, aside>>

NextDL ==
    \/ DLDayPasses
    \/ \E s \in Sources, among \in SUBSET RegistryUrls : DLQuery(s, among)
    \/ \E s \in Sources : DLQueryAll(s)

----------------------------------------------------------------------------
\* db.py record_dead_link called on its own, over the tables it can have left, on
\* the first days of the registry's history

\* ScrapeError.error_type
DeadErrorTypes == {"timeout", "404"}

\* the days on which failures are recorded
RecordDays == 3

RecDayPasses ==
    /\ today < FirstDay + RecordDays - 1
    /\ today' = today + 1
    /\ UNCHANGED <<articles, dead_links, dlAnswer, scheduler, limiter, sweep, aside>>

\* await record_dead_link(pool, source_id, url, error_type)
DLRecord(s, u, e) ==
    /\ u \in DOMAIN dead_links => dead_links[u].retry_count < MaxRetry
    /\ dead_links' = record_dead_link(dead_links, today, s, u, e)
    /\ dlAnswer' = [kind |-> "record", source |-> s, among |-> {u}, urls |-> {},
                    error_type |-> e]
    /\ UNCHANGED <<today, articles, scheduler, limiter, sweep, aside>>

NextRecord ==
    \/ RecDayPasses
    \/ \E s \in Sources, u \in RegistryUrls, e \in DeadErrorTypes : DLRecord(s, u, e)

----------------------------------------------------------------------------
\* backfill.py run_nid_sweep: one sweep of source "a", one batch of _sweep_one tasks

SweepSource == "a"

\* url_pattern.format(nid=nid)
PatternUrl(n) == <<"a/n1", "a/n2", "a/n3", "a/n4">>[n]

Nids == 1 .. NidEnd

\* page.url once the page has loaded: the pattern url, or the article's canonical url
\* the site redirects to
FinalUrls(n) == IF n <= 2 THEN {PatternUrl(n), "a/1"} ELSE {PatternUrl(n)}

NidCountsZero == [inserted |-> 0, skipped |-> 0, not_found |-> 0]

SweepUnused ==
    /\ nidPc = [n \in Nids |-> "new"]
    /\ nidRes = [n \in Nids |-> "none"]
    /\ nidFinal = [n \in Nids |-> ""]
    /\ nidSem = 0
    /\ nid404 = 0
    /\ nidExisting = {}
    /\ nidDead = {}
    /\ nidLock = 0
    /\ nidCounts = NidCountsZero

\* the articles table before the sweep: empty, one swept earlier, or the canonical
\* url stored under another source
SweepArticles ==
    { {},
      {[url |-> "a/n3", source_id |-> "a", title |-> TitleSport]},
      {[url |-> "a/1", source_id |-> "b", title |-> TitleEcon]} }

\* the dead_links table before the sweep: empty, the canonical url or a pattern url
\* within its backoff, a pattern url due for a retry
SweepDeadLinks ==
    { NoDeadLinks,
      [u \in {"a/1"} |-> DeadRow("a", 5, 0)],
      [u \in {"a/n2"} |-> DeadRow("a", 5, 0)],
      [u \in {"a/n1"} |-> DeadRow("a", 0, 0)] }

SweepStart ==
    /\ SweepUnused
    /\ today = RunDay
    /\ articles \in SweepArticles
    /\ dead_links \in SweepDeadLinks
    /\ ArticleUrls(articles) \cap DOMAIN dead_links = {}

NidFrame == UNCHANGED <<today, scheduler, limiter, registry, aside>>

\* existing_urls and dead_urls are loaded, the batch is pre-filtered and the tasks
\* of the nids left are created
NidPreload ==
    /\ \A n \in Nids : nidPc[n] = "new"
    /\ LET existing == get_all_source_urls(articles, SweepSource)
           dead == get_all_dead_urls(dead_links, today, SweepSource)
           skip == {n \in Nids : PatternUrl(n) \in existing \cup dead}
       IN  /\ nidExisting' = existing
           /\ nidDead' = dead
           /\ nidPc' = [n \in Nids |-> IF n \in skip THEN "skipped" ELSE "sem"]
           /\ nidCounts' = [nidCounts EXCEPT !.skipped = @ + Cardinality(skip)]
    /\ UNCHANGED <<nidRes, nidFinal, nidSem, nid404, nidLock, articles, dead_links>>
    /\ NidFrame

\* the semaphore serves its waiters in the order the tasks were created
NidNextInLine(n) ==
    /\ nidPc[n] = "sem"
    /\ nidSem < NidConcurrency
    /\ n = SetMin({m \in Nids : nidPc[m] = "sem"})

\* async with semaphore: consecutive_404 >= max_404: return
NidEnterStop(n) ==
    /\ NidNextInLine(n)
    /\ nid404 >= NidMax404
    /\ nidPc' = [nidPc EXCEPT ![n] = "done"]
    /\ UNCHANGED <<nidRes, nidFinal, nidSem, nid404, nidExisting, nidDead, nidLock,
                   nidCounts, articles, dead_links>>
    /\ NidFrame

\* async with semaphore: await rate_limiter.wait()
NidEnter(n) ==
    /\ NidNextInLine(n)
    /\ nid404 < NidMax404
    /\ nidSem' = nidSem + 1
    /\ nidPc' = [nidPc EXCEPT ![n] = "wait"]
    /\ UNCHANGED <<nidRes, nidFinal, nid404, nidExisting, nidDead, nidLock,
                   nidCounts, articles, dead_links>>
    /\ NidFrame

\* rate_limiter.wait() returned: await scrape_article_page(context, url)
NidWaited(n) ==
    /\ nidPc[n] = "wait"
    /\ nidPc' = [nidPc EXCEPT ![n] = "scrape"]
    /\ UNCHANGED <<nidRes, nidFinal, nidSem, nid404, nidExisting, nidDead, nidLock,
                   nidCounts, articles, dead_links>>
    /\ NidFrame

\* the task returns: the semaphore is released
NidReturn(n) ==
    /\ nidPc' = [nidPc EXCEPT ![n] = "done"]
    /\ nidSem' = nidSem - 1

\* scraped is None or too short: not_found += 1; consecutive_404 += 1; return
NidScrapeFailed(n) ==
    /\ nidPc[n] = "scrape"
    /\ nidCounts' = [nidCounts EXCEPT !.not_found = @ + 1]
    /\ nid404' = nid404 + 1
    /\ NidReturn(n)
    /\ UNCHANGED <<nidRes, nidFinal, nidExisting, nidDead, nidLock, articles,
                   dead_links>>
    /\ NidFrame

\* a ScrapedArticle came back: consecutive_404 = 0; await remove_dead_link(pool, url)
NidScrapeSucceeded(n) ==
    /\ nidPc[n] = "scrape"
    /\ \E r \in ScrapeResults \ {"none"} : nidRes' = [nidRes EXCEPT ![n] = r]
    /\ \E f \in FinalUrls(n) : nidFinal' = [nidFinal EXCEPT ![n] = f]
    /\ nid404' = 0
    /\ nidPc' = [nidPc EXCEPT ![n] = "rm"]
    /\ UNCHANGED <<nidSem, nidExisting, nidDead, nidLock, nidCounts, articles,
                   dead_links>>
    /\ NidFrame

\* the url the task asked for, whatever the page redirected to
CanonicalUrlAsked(n) == PatternUrl(n)

\* what the task stores the article under: scraped.final_url or url
CanonicalUrl(n) == IF nidFinal[n] # "" THEN nidFinal[n] ELSE PatternUrl(n)

\* remove_dead_link is done; db_lock is held by another task: wait for it
NidRemovedLockBusy(n) ==
    /\ nidPc[n] = "rm"
    /\ nidLock # 0
    /\ dead_links' = remove_dead_link(dead_links, PatternUrl(n))
    /\ nidPc' = [nidPc EXCEPT ![n] = "lock"]
    /\ UNCHANGED <<nidRes, nidFinal, nidSem, nid404, nidExisting, nidDead, nidLock,
                   nidCounts, articles>>
    /\ NidFrame

\* under db_lock, canonical_url in existing_urls: skipped += 1; return
NidLockedSkip(n) ==
    /\ CanonicalUrl(n) \in nidExisting
    /\ nidCounts' = [nidCounts EXCEPT !.skipped = @ + 1]
    /\ NidReturn(n)
    /\ UNCHANGED <<nidRes, nidFinal, nid404, nidExisting, nidDead, nidLock, articles>>
    /\ NidFrame

\* under db_lock, not scraped.published_at: not_found += 1; return
NidLockedNoDate(n) ==
    /\ CanonicalUrl(n) \notin nidExisting
    /\ nidRes[n] = "nodate"
    /\ nidCounts' = [nidCounts EXCEPT !.not_found = @ + 1]
    /\ NidReturn(n)
    /\ UNCHANGED <<nidRes, nidFinal, nid404, nidExisting, nidDead, nidLock, articles>>
    /\ NidFrame

\* an insert awaited after db_lock has been given back
NidLockedInsertUnlocked(n) ==
    /\ CanonicalUrl(n) \notin nidExisting
    /\ nidRes[n] = "ok"
    /\ nidPc' = [nidPc EXCEPT ![n] = "insert"]
    /\ UNCHANGED <<nidRes, nidFinal, nidSem, nid404, nidExisting, nidDead, nidLock,
                   nidCounts, articles>>
    /\ NidFrame

\* under db_lock: await insert_article(pool, article)
NidLockedInsert(n) ==
    /\ CanonicalUrl(n) \notin nidExisting
    /\ nidRes[n] = "ok"
    /\ nidLock' = n
    /\ nidPc' = [nidPc EXCEPT ![n] = "insert"]
    /\ UNCHANGED <<nidRes, nidFinal, nidSem, nid404, nidExisting, nidDead, nidCounts,
                   articles>>
    /\ NidFrame

\* remove_dead_link is done and db_lock is free
NidRemoved(n) ==
    /\ nidPc[n] = "rm"
    /\ nidLock = 0
    /\ dead_links' = remove_dead_link(dead_links, PatternUrl(n))

NidRemovedSkip(n) == NidRemoved(n) /\ NidLockedSkip(n)

NidRemovedNoDate(n) == NidRemoved(n) /\ NidLockedNoDate(n)

NidRemovedInsert(n) == NidRemoved(n) /\ NidLockedInsert(n)

\* db_lock was released and this waiter gets it
NidAcquired(n) ==
    /\ nidPc[n] = "lock"
    /\ nidLock = 0
    /\ UNCHANGED dead_links

NidAcquiredSkip(n) == NidAcquired(n) /\ NidLockedSkip(n)

NidAcquiredNoDate(n) == NidAcquired(n) /\ NidLockedNoDate(n)

NidAcquiredInsert(n) == NidAcquired(n) /\ NidLockedInsert(n)

NidArticleRow(n) ==
    [url |-> CanonicalUrl(n), source_id |-> SweepSource, title |-> TitleSport]

\* insert_article returned an id: inserted += 1; existing_urls.add(canonical_url)
NidInsertedNew(n) ==
    /\ nidPc[n] = "insert"
    /\ InsertReturnsId(articles, NidArticleRow(n))
    /\ articles' = insert_article(articles, NidArticleRow(n))
    /\ nidCounts' = [nidCounts EXCEPT !.inserted = @ + 1]
    /\ nidExisting' = nidExisting \cup {CanonicalUrl(n)}
    /\ nidLock' = 0
    /\ NidReturn(n)
    /\ UNCHANGED <<nidRes, nidFinal, nid404, nidDead, dead_links>>
    /\ NidFrame

\* insert_article returned None: skipped += 1
NidInsertedConflict(n) ==
    /\ nidPc[n] = "insert"
    /\ ~InsertReturnsId(articles, NidArticleRow(n))
    /\ nidCounts' = [nidCounts EXCEPT !.skipped = @ + 1]
    /\ nidLock' = 0
    /\ NidReturn(n)
    /\ UNCHANGED <<nidRes, nidFinal, nid404, nidExisting, nidDead, articles, dead_links>>
    /\ NidFrame

NextNid ==
    \/ NidPreload
    \/ \E n \in Nids : NidEnterStop(n)
    \/ \E n \in Nids : NidEnter(n)
    \/ \E n \in Nids : NidWaited(n)
    \/ \E n \in Nids : NidScrapeFailed(n)
    \/ \E n \in Nids : NidScrapeSucceeded(n)
    \/ \E n \in Nids : NidRemovedLockBusy(n)
    \/ \E n \in Nids : NidRemovedSkip(n)
    \/ \E n \in Nids : NidRemovedNoDate(n)
    \/ \E n \in Nids : NidRemovedInsert(n)
    \/ \E n \in Nids : NidAcquiredSkip(n)
    \/ \E n \in Nids : NidAcquiredNoDate(n)
    \/ \E n \in Nids : NidAcquiredInsert(n)
    \/ \E n \in Nids : NidInsertedNew(n)
    \/ \E n \in Nids : NidInsertedConflict(n)

----------------------------------------------------------------------------
\* backfill.py _crawl_archive_pages: the archive sections of one source are crawled
\* one after the other, page by page; seen_urls is shared by the sections.  The
\* fresh-context and the shared-context loop treat a page in the same way.

\* get_archive_patterns(slug): the sections and their max_pages
ArchivePatterns ==
    << [section |-> "hot-news", max_pages |-> 7],
       [section |-> "sports", max_pages |-> 3] >>

\* the largest pages argument
CrMaxPages == 7

\* if consecutive_empty >= 3: break
EmptyPagesStop == 3

\* the article links a listing page can hold
ListingLinks == {{}, {"a/1"}, {"a/1", "a/2"}}

\* max_pages = min(pages, ap["max_pages"])
SectionPages(k) == Min(crPages, ArchivePatterns[k].max_pages)

CrawlUnused ==
    /\ crPages = 0
    /\ crSection = 0
    /\ crPage = 0
    /\ crEmpty = 0
    /\ crSeen = {}
    /\ crLog = <<>>
    /\ crDone = <<>>

\* the call has set up seen_urls and entered the first section
CrawlStart ==
    /\ crPages \in 1 .. CrMaxPages
    /\ crSection = 1
    /\ crPage = 0
    /\ crEmpty = 0
    /\ crSeen = {}
    /\ crLog = <<>>
    /\ crDone = <<>>

CrawlFrame ==
    UNCHANGED <<crPages, scheduler, database, limiter, registry, sweep, ingest, flt,
                others>>

Crawling == crSection \in DOMAIN ArchivePatterns /\ crPage < SectionPages(crSection)

\* the counter kept as the page's new_count is zero or not, whatever came before
ConsecutiveEmptyKept(new_count, empty) == IF new_count = 0 THEN empty + 1 ELSE empty

\* if new_count == 0: consecutive_empty += 1 else: consecutive_empty = 0
ConsecutiveEmpty(new_count, empty) == IF new_count = 0 THEN empty + 1 ELSE 0

\* the for loop over the pages goes on with the next i, or is exhausted and the
\* next section starts with consecutive_empty = 0
CrawlGoOn(entry, empty) ==
    IF crPage + 1 < SectionPages(crSection)
    THEN /\ crPage' = crPage + 1
         /\ crEmpty' = empty
         /\ crLog' = Append(crLog, entry)
         /\ UNCHANGED <<crSection, crDone>>
    ELSE /\ crPage' = 0
         /\ crEmpty' = 0
         /\ crLog' = <<>>
         /\ crSection' = crSection + 1
         /\ crDone' = Append(crDone, [log |-> Append(crLog, entry), stop |-> "end"])

\* break: the rest of the section is skipped and the next section starts
CrawlBreak(entry, why) ==
    /\ crPage' = 0
    /\ crEmpty' = 0
    /\ crLog' = <<>>
    /\ crSection' = crSection + 1
    /\ crDone' = Append(crDone, [log |-> Append(crLog, entry), stop |-> why])

\* the page loaded and holds links not seen before
CrawlPageNew ==
    /\ Crawling
    /\ \E links \in ListingLinks :
          /\ links \ crSeen # {}
          /\ crSeen' = crSeen \cup links
          /\ CrawlGoOn("new", ConsecutiveEmpty(Cardinality(links \ crSeen), crEmpty))
    /\ CrawlFrame

\* the page loaded and holds only links seen before, for the first or second time
\* in a row
CrawlPageOld ==
    /\ Crawling
    /\ \E links \in ListingLinks :
          /\ links # {} /\ links \subseteq crSeen
          /\ ConsecutiveEmpty(0, crEmpty) < EmptyPagesStop
          /\ CrawlGoOn("old", ConsecutiveEmpty(0, crEmpty))
    /\ UNCHANGED crSeen
    /\ CrawlFrame

\* the page loaded and holds only links seen before, for the third time in a row
CrawlPageOldStop ==
    /\ Crawling
    /\ \E links \in ListingLinks :
          /\ links # {} /\ links \subseteq crSeen
          /\ ConsecutiveEmpty(0, crEmpty) >= EmptyPagesStop
          /\ CrawlBreak("old", "empty")
    /\ UNCHANGED crSeen
    /\ CrawlFrame

\* if not links: break
CrawlPageNoLinks ==
    /\ Crawling
    /\ {} \in ListingLinks
    /\ CrawlBreak("nolinks", "nolinks")
    /\ UNCHANGED crSeen
    /\ CrawlFrame

\* goto or evaluate raised, or the Cloudflare challenge did not resolve: the page is
\* skipped, consecutive_empty is left as it is
CrawlPageFailed ==
    /\ Crawling
    /\ CrawlGoOn("failed", crEmpty)
    /\ UNCHANGED crSeen
    /\ CrawlFrame

NextCrawl ==
    \/ CrawlPageNew
    \/ CrawlPageOld
    \/ CrawlPageOldStop
    \/ CrawlPageNoLinks
    \/ CrawlPageFailed

----------------------------------------------------------------------------
\* pipeline.py run_ingest(source=slug, limit, concurrency=1) called again and again
\* on one database (cli.py: _ingest_loop).  With the default concurrency of 1 the
\* semaphore lets one _scrape_one run at a time, in the order of items_to_scrape.

IngestSource == "a"

\* the limit argument
IngestLimit == 3

\* the runs and the scrapes of one url the model follows
MaxRuns == 5

MaxTried == 5

\* the days the runs are spread over, from RunDay on
IngestDays == 2

ZeroCounts == [inserted |-> 0, skipped_no_date |-> 0, skipped_duplicate |-> 0]

NoRun == [active |-> FALSE, feed |-> <<>>, connected |-> FALSE, todo |-> <<>>]

NoSummary == [kind |-> "none", feed |-> <<>>, connected |-> FALSE, counts |-> ZeroCounts]

\* what scrape_article_page can give for a url each time it is asked: a/3 is a page
\* that may not load, a/2 an article that may lack its date
PageResults(u) ==
    IF u = "a/3" THEN {"none", "ok"}
    ELSE IF u = "a/2" THEN {"nodate", "ok"}
    ELSE {"ok"}

IngestUnused ==
    /\ inRun = NoRun
    /\ inCounts = ZeroCounts
    /\ inTitles = {}
    /\ inSummary = NoSummary
    /\ inTried = [u \in Urls |-> 0]
    /\ inFailed = [u \in Urls |-> 0]
    /\ inFailDay = [u \in Urls |-> 0]
    /\ inRuns = 0

IngestStart == IngestUnused

IngestFrame == UNCHANGED <<scheduler, limiter, registry, sweep, crawl, flt, others>>

\* a day goes by between two runs
IngestDayPasses ==
    /\ ~inRun.active
    /\ today < RunDay + IngestDays
    /\ today' = today + 1
    /\ UNCHANGED <<articles, dead_links, ingest>>
    /\ IngestFrame

\* connect_browser(): the browser, or None after "Playwright connection failed"
Browsers == {TRUE, FALSE}

\* a summary is returned to the caller of run_ingest
Return(feed, connected, result) ==
    /\ inSummary' = [kind |-> "ok", feed |-> feed, connected |-> connected,
                     counts |-> result]
    /\ inRun' = NoRun

\* _discover_articles found nothing: the zero summary is returned
IngestNothingFound ==
    /\ ~inRun.active
    /\ inRuns < MaxRuns
    /\ inRuns' = inRuns + 1
    /\ \E connected \in Browsers : Return(<<>>, connected, ZeroCounts)
    /\ UNCHANGED <<inCounts, inTitles, inTried, inFailed, inFailDay,
                   database>>
    /\ IngestFrame

\* the items of the feed the pre-filter of _ingest_source lets through
ToScrape(feed) ==
    Filtered(feed,
             get_existing_urls(articles, IngestSource, Links(feed)),
             get_dead_urls(dead_links, today, IngestSource, Links(feed)),
             RecentTitleSet(articles, IngestSource))

\* what discovery can return for the source over the runs
IngestFeeds ==
    {Limit(f, IngestLimit) : f \in Feeds(IngestSource) \cup {<<1, 5, 3>>}}

\* if not items_to_scrape: return the zero summary
IngestAllKnown ==
    /\ ~inRun.active
    /\ inRuns < MaxRuns
    /\ inRuns' = inRuns + 1
    /\ \E feed \in IngestFeeds, connected \in Browsers :
          /\ ToScrape(feed) = <<>>
          /\ Return(feed, connected, ZeroCounts)
    /\ UNCHANGED <<inCounts, inTitles, inTried, inFailed, inFailDay,
                   database>>
    /\ IngestFrame

\* if not browser: return the zero summary
IngestNoBrowser ==
    /\ ~inRun.active
    /\ inRuns < MaxRuns
    /\ inRuns' = inRuns + 1
    /\ \E feed \in IngestFeeds :
          /\ ToScrape(feed) # <<>>
          /\ Return(feed, FALSE, ZeroCounts)
    /\ UNCHANGED <<inCounts, inTitles, inTried, inFailed, inFailDay,
                   database>>
    /\ IngestFrame

\* the browser is there and items are left: counts are zeroed and the tasks gathered
IngestScrapeBegins ==
    /\ ~inRun.active
    /\ inRuns < MaxRuns
    /\ inRuns' = inRuns + 1
    /\ \E feed \in IngestFeeds :
          /\ ToScrape(feed) # <<>>
          /\ \A i \in Range(ToScrape(feed)) : inTried[ItemTable[i].link] < MaxTried
          /\ inRun' = [active |-> TRUE, feed |-> feed, connected |-> TRUE,
                       todo |-> ToScrape(feed)]
    /\ inCounts' = ZeroCounts
    /\ inTitles' = RecentTitleSet(articles, IngestSource)
    /\ UNCHANGED <<inSummary, inTried, inFailed, inFailDay, database>>
    /\ IngestFrame

\* the item the next _scrape_one is about
IngestItem == ItemTable[Head(inRun.todo)]

\* _scrape_one is through with its item, whatever the outcome
IngestItemDone ==
    /\ inRun' = [inRun EXCEPT !.todo = Tail(@)]
    /\ inTried' = [inTried EXCEPT ![IngestItem.link] = @ + 1]
    /\ UNCHANGED <<inSummary, inRuns, today>>
    /\ IngestFrame

\* the scrape returned a ScrapedArticle: the url's last scrape is no failure
ScrapeGaveAPage == inFailDay' = [inFailDay EXCEPT ![IngestItem.link] = 0]

\* not scraped, or content too short: a warning is logged and the task returns
IngestScrapeFailed ==
    /\ inRun.active /\ inRun.todo # <<>>
    /\ "none" \in PageResults(IngestItem.link)
    /\ inFailed' = [inFailed EXCEPT ![IngestItem.link] = @ + 1]
    /\ inFailDay' = [inFailDay EXCEPT ![IngestItem.link] = today]
    /\ IngestItemDone
    /\ UNCHANGED <<inCounts, inTitles, articles, dead_links>>

\* remove_dead_link; not scraped.published_at: skipped_no_date += 1
IngestNoDate ==
    /\ inRun.active /\ inRun.todo # <<>>
    /\ "nodate" \in PageResults(IngestItem.link)
    /\ dead_links' = remove_dead_link(dead_links, IngestItem.link)
    /\ inCounts' = [inCounts EXCEPT !.skipped_no_date = @ + 1]
    /\ IngestItemDone
    /\ ScrapeGaveAPage
    /\ UNCHANGED <<inTitles, inFailed, articles>>

\* remove_dead_link; under db_lock the title is in existing_titles:
\* skipped_duplicate += 1
IngestDuplicateTitle ==
    /\ inRun.active /\ inRun.todo # <<>>
    /\ "ok" \in PageResults(IngestItem.link)
    /\ IsTitleDuplicate(normalize_title(IngestItem.title), inTitles)
    /\ dead_links' = remove_dead_link(dead_links, IngestItem.link)
    /\ inCounts' = [inCounts EXCEPT !.skipped_duplicate = @ + 1]
    /\ IngestItemDone
    /\ ScrapeGaveAPage
    /\ UNCHANGED <<inTitles, inFailed, articles>>

IngestRow ==
    [url |-> IngestItem.link, source_id |-> IngestSource, title |-> IngestItem.title]

\* remove_dead_link; under db_lock insert_article returned an id: inserted += 1,
\* existing_titles.add(norm_title)
IngestInserted ==
    /\ inRun.active /\ inRun.todo # <<>>
    /\ "ok" \in PageResults(IngestItem.link)
    /\ ~IsTitleDuplicate(normalize_title(IngestItem.title), inTitles)
    /\ InsertReturnsId(articles, IngestRow)
    /\ dead_links' = remove_dead_link(dead_links, IngestItem.link)
    /\ articles' = insert_article(articles, IngestRow)
    /\ inCounts' = [inCounts EXCEPT !.inserted = @ + 1]
    /\ inTitles' = inTitles \cup {normalize_title(IngestItem.title)}
    /\ ScrapeGaveAPage
    /\ UNCHANGED inFailed
    /\ IngestItemDone

\* remove_dead_link; under db_lock insert_article returned None:
\* skipped_duplicate += 1
IngestConflict ==
    /\ inRun.active /\ inRun.todo # <<>>
    /\ "ok" \in PageResults(IngestItem.link)
    /\ ~IsTitleDuplicate(normalize_title(IngestItem.title), inTitles)
    /\ ~InsertReturnsId(articles, IngestRow)
    /\ dead_links' = remove_dead_link(dead_links, IngestItem.link)
    /\ inCounts' = [inCounts EXCEPT !.skipped_duplicate = @ + 1]
    /\ IngestItemDone
    /\ ScrapeGaveAPage
    /\ UNCHANGED <<inTitles, inFailed, articles>>

\* gather is over: return counts
IngestReturns ==
    /\ inRun.active /\ inRun.todo = <<>>
    /\ Return(inRun.feed, TRUE, inCounts)
    /\ UNCHANGED <<inCounts, inTitles, inTried, inFailed, inFailDay, inRuns,
                   database>>
    /\ IngestFrame

NextIngest ==
    \/ IngestDayPasses
    \/ IngestNothingFound
    \/ IngestAllKnown
    \/ IngestNoBrowser
    \/ IngestScrapeBegins
    \/ IngestScrapeFailed
    \/ IngestNoDate
    \/ IngestDuplicateTitle
    \/ IngestInserted
    \/ IngestConflict
    \/ IngestReturns

----------------------------------------------------------------------------
\* The filter each discovery path applies to its candidates before it scrapes them:
\* pipeline.py _discover_and_enqueue and _ingest_source, backfill.py run_backfill and
\* _discover_archive, run_nid_sweep, run_date_sweep.  All are asked about source "a"
\* on one database.

FilterPaths == {"ingest", "backfill", "nid_sweep", "date_sweep"}

\* a candidate as the filter sees it: RSSItem(title, link), or the bare url of a nid
Candidate(i) == [link |-> ItemTable[i].link, title |-> ItemTable[i].title]

NidCandidate(n) == [link |-> PatternUrl(n), title |-> <<>>]

\* what a feed, an archive crawl or the daily archive pages can list
Listings == {<<1, 2>>, <<2, 6, 3>>, <<5, 2, 5>>}

Discovered(listing) == [k \in DOMAIN listing |-> Candidate(listing[k])]

CandidateLinks(cands) == {cands[k].link : k \in DOMAIN cands}

NotFiltered == [done |-> FALSE, found |-> <<>>, scrape |-> <<>>]

FilterUnused == flt = [p \in FilterPaths |-> NotFiltered]

\* the articles table the paths are asked on: empty, or holding a/1
FilterArticles ==
    { {}, {[url |-> "a/1", source_id |-> SweepSource, title |-> TitleEcon]} }

FilterStart ==
    /\ FilterUnused
    /\ today = RunDay
    /\ articles \in FilterArticles
    /\ dead_links \in SweepDeadLinks
    /\ ArticleUrls(articles) \cap DOMAIN dead_links = {}

FilterFrame ==
    UNCHANGED <<scheduler, database, limiter, registry, sweep, crawl, ingest, others>>

\* pipeline.py 167-176, 245-256; backfill.py 259-270, 997-1005: link not in existing,
\* not in dead, not _should_skip_url, title not in the recent titles
FeedFilter(cands) ==
    LET existing == get_existing_urls(articles, SweepSource, CandidateLinks(cands))
        dead == get_dead_urls(dead_links, today, SweepSource, CandidateLinks(cands))
        titles == RecentTitleSet(articles, SweepSource)
        keep(c) == /\ c.link \notin existing
                   /\ c.link \notin dead
                   /\ ~ShouldSkipUrl(c.link)
                   /\ ~IsTitleDuplicate(normalize_title(c.title), titles)
    IN  SelectSeq(cands, keep)

\* backfill.py 445-454: candidate_url not in existing_urls, not in dead_urls
NidFilter(cands) ==
    LET existing == get_all_source_urls(articles, SweepSource)
        dead == get_all_dead_urls(dead_links, today, SweepSource)
        keep(c) == c.link \notin existing /\ c.link \notin dead
    IN  SelectSeq(cands, keep)

\* backfill.py 648, 673-679: url not in seen_urls and not _should_skip_url(url);
\* seen_urls starts as existing_urls | dead_urls_set and gains every url kept
RECURSIVE DateFilterFrom(_, _)
DateFilterFrom(cands, seen) ==
    IF cands = <<>> THEN <<>>
    ELSE IF Head(cands).link \notin seen /\ ~ShouldSkipUrl(Head(cands).link)
         THEN <<Head(cands)>> \o DateFilterFrom(Tail(cands), seen \cup {Head(cands).link})
         ELSE DateFilterFrom(Tail(cands), seen)

DateFilter(cands) ==
    DateFilterFrom(cands, get_all_source_urls(articles, SweepSource)
                             \cup get_all_dead_urls(dead_links, today, SweepSource))

Filters(p, found, kept) ==
    /\ ~flt[p].done
    /\ flt' = [flt EXCEPT ![p] = [done |-> TRUE, found |-> found, scrape |-> kept]]
    /\ FilterFrame

\* _ingest_source / _discover_and_enqueue
FilterIngest ==
    \E l \in Listings : Filters("ingest", Discovered(l), FeedFilter(Discovered(l)))

\* run_backfill / _discover_archive
FilterBackfill ==
    \E l \in Listings : Filters("backfill", Discovered(l), FeedFilter(Discovered(l)))

\* run_nid_sweep: one batch
FilterNid ==
    LET batch == [n \in Nids |-> NidCandidate(n)]
    IN  Filters("nid_sweep", batch, NidFilter(batch))

\* run_date_sweep: the links of the daily archive pages
FilterDate ==
    \E l \in Listings : Filters("date_sweep", Discovered(l), DateFilter(Discovered(l)))

\* the next call starts from the same database
FilterAgain ==
    /\ \E p \in FilterPaths : flt[p].done
    /\ flt' = [p \in FilterPaths |-> NotFiltered]
    /\ FilterFrame

NextFilter ==
    \/ FilterIngest
    \/ FilterBackfill
    \/ FilterNid
    \/ FilterDate
    \/ FilterAgain

----------------------------------------------------------------------------
\* backfill.py: the scrape phase of run_backfill and of run_date_sweep.  The two
\* _scrape_one closures are the same code but for existing_urls.add, which only
\* run_backfill has.

FillPaths == {"backfill", "date_sweep"}

FillSource == "a"

\* the concurrency argument, scaled
FillConcurrency == 2

\* items_to_scrape: urls seen once, none of them an article or a suppressed dead link
\* when the phase starts
FillBatches == {<<1, 2, 5>>, <<3, 7, 2>>}

FillSlots == 1 .. 3

FillCountsZero == [inserted |-> 0, failed |-> 0, no_date |-> 0]

FillUnused ==
    /\ bfPath = "none"
    /\ bfBatch = <<>>
    /\ bfPc = [k \in FillSlots |-> "none"]
    /\ bfRes = [k \in FillSlots |-> "none"]
    /\ bfSem = 0
    /\ bfLock = 0
    /\ bfExisting = {}
    /\ bfCounts = FillCountsZero

\* tasks = [_scrape_one(item) for item in items_to_scrape]; gather starts them all
FillStart ==
    /\ bfPath \in FillPaths
    /\ bfBatch \in FillBatches
    /\ bfPc = [k \in FillSlots |-> "sem"]
    /\ bfRes = [k \in FillSlots |-> "none"]
    /\ bfSem = 0
    /\ bfLock = 0
    /\ bfExisting = {}
    /\ bfCounts = FillCountsZero

FillFrame ==
    UNCHANGED <<bfPath, bfBatch, bfExisting, today, scheduler, limiter, registry, sweep,
                crawl, ingest, flt, dates, texts>>

FillLink(k) == ItemTable[bfBatch[k]].link

FillRow(k) ==
    [url |-> FillLink(k), source_id |-> FillSource, title |-> ItemTable[bfBatch[k]].title]

\* async with semaphore: await rate_limiter.wait(); the semaphore serves its waiters in
\* the order the tasks were created
FillEnter(k) ==
    /\ bfPc[k] = "sem"
    /\ bfSem < FillConcurrency
    /\ k = SetMin({m \in FillSlots : bfPc[m] = "sem"})
    /\ bfSem' = bfSem + 1
    /\ bfPc' = [bfPc EXCEPT ![k] = "scrape"]
    /\ UNCHANGED <<bfRes, bfLock, bfCounts, articles, dead_links>>
    /\ FillFrame

\* the task returns: the semaphore is released
FillReturn(k) ==
    /\ bfPc' = [bfPc EXCEPT ![k] = "done"]
    /\ bfSem' = bfSem - 1

\* scraped is None or too short: failed += 1; return
FillScrapeFailed(k) ==
    /\ bfPc[k] = "scrape"
    /\ bfCounts' = [bfCounts EXCEPT !.failed = @ + 1]
    /\ FillReturn(k)
    /\ UNCHANGED <<bfRes, bfLock, articles, dead_links>>
    /\ FillFrame

\* a ScrapedArticle came back: await remove_dead_link(pool, item.link)
FillScrapeSucceeded(k) ==
    /\ bfPc[k] = "scrape"
    /\ \E r \in ScrapeResults \ {"none"} : bfRes' = [bfRes EXCEPT ![k] = r]
    /\ bfPc' = [bfPc EXCEPT ![k] = "rm"]
    /\ UNCHANGED <<bfSem, bfLock, bfCounts, articles, dead_links>>
    /\ FillFrame

\* remove_dead_link is done; not scraped.published_at: no_date += 1; return
FillRemovedNoDate(k) ==
    /\ bfPc[k] = "rm"
    /\ bfRes[k] = "nodate"
    /\ dead_links' = remove_dead_link(dead_links, FillLink(k))
    /\ bfCounts' = [bfCounts EXCEPT !.no_date = @ + 1]
    /\ FillReturn(k)
    /\ UNCHANGED <<bfRes, bfLock, articles>>
    /\ FillFrame

\* remove_dead_link is done; db_lock is held by another task: wait for it
FillRemovedLockBusy(k) ==
    /\ bfPc[k] = "rm"
    /\ bfRes[k] = "ok"
    /\ bfLock # 0
    /\ dead_links' = remove_dead_link(dead_links, FillLink(k))
    /\ bfPc' = [bfPc EXCEPT ![k] = "lockwait"]
    /\ UNCHANGED <<bfRes, bfSem, bfLock, bfCounts, articles>>
    /\ FillFrame

\* async with db_lock: article_id = await insert_article(pool, article); no title is
\* read under the lock
FillLocked(k) ==
    /\ bfLock = 0
    /\ bfLock' = k
    /\ bfPc' = [bfPc EXCEPT ![k] = "insert"]
    /\ UNCHANGED <<bfRes, bfSem, bfCounts, articles>>
    /\ FillFrame

\* remove_dead_link is done and db_lock is free
FillRemovedInsert(k) ==
    /\ bfPc[k] = "rm"
    /\ bfRes[k] = "ok"
    /\ dead_links' = remove_dead_link(dead_links, FillLink(k))
    /\ FillLocked(k)

\* db_lock was released and this waiter gets it
FillAcquired(k) ==
    /\ bfPc[k] = "lockwait"
    /\ UNCHANGED dead_links
    /\ FillLocked(k)

\* insert_article returned: if article_id: inserted += 1 (and, in run_backfill,
\* existing_urls.add(item.link)); no title is written; the lock is released
FillInserted(k) ==
    /\ bfPc[k] = "insert"
    /\ articles' = insert_article(articles, FillRow(k))
    /\ bfCounts' = IF InsertReturnsId(articles, FillRow(k))
                   THEN [bfCounts EXCEPT !.inserted = @ + 1]
                   ELSE bfCounts
    /\ bfExisting' = IF InsertReturnsId(articles, FillRow(k)) /\ bfPath = "backfill"
                     THEN bfExisting \cup {FillLink(k)}
                     ELSE bfExisting
    /\ bfLock' = 0
    /\ FillReturn(k)
    /\ UNCHANGED <<bfRes, dead_links>>
    /\ UNCHANGED <<bfPath, bfBatch, today, scheduler, limiter, registry, sweep,
                   crawl, ingest, flt, dates, texts>>

NextFill ==
    \/ \E k \in FillSlots : FillEnter(k)
    \/ \E k \in FillSlots : FillScrapeFailed(k)
    \/ \E k \in FillSlots : FillScrapeSucceeded(k)
    \/ \E k \in FillSlots : FillRemovedNoDate(k)
    \/ \E k \in FillSlots : FillRemovedLockBusy(k)
    \/ \E k \in FillSlots : FillRemovedInsert(k)
    \/ \E k \in FillSlots : FillAcquired(k)
    \/ \E k \in FillSlots : FillInserted(k)

----------------------------------------------------------------------------
\* text/dates.py: _is_valid_date and extract_date_waterfall.  A datetime is its wall
\* clock reading in half hours since 1970-01-01 00:00 on its own clock, and its
\* utcoffset in half hours when it is aware.

\* _MIN_YEAR
MinYear == 2006

\* _SRI_LANKA_TZ = timezone(timedelta(hours=5, minutes=30)), in half hours
SriLankaOffset == 11

\* timedelta(days=2), in days
FutureDays == 2

HalfHours(days) == 48 * days

\* leap years of the proleptic Gregorian calendar up to year n
Leaps(n) == (n \div 4) - (n \div 100) + (n \div 400)

\* days from 1970-01-01 to the first of January of year y
YearStart(y) == 365 * (y - 1970) + Leaps(y - 1) - Leaps(1969)

\* dt.year
YearOf(wall) ==
    LET day == wall \div 48
    IN  CHOOSE y \in (1970 + (day \div 366)) .. (1970 + (day \div 365)) :
            YearStart(y) <= day /\ day < YearStart(y + 1)

NoDate == [some |-> FALSE, wall |-> 0, off |-> 0, aware |-> FALSE]

Naive(wall) == [some |-> TRUE, wall |-> wall, off |-> 0, aware |-> FALSE]

Aware(wall, off) == [some |-> TRUE, wall |-> wall, off |-> off, aware |-> TRUE]

\* the point in time an aware datetime stands for
Instant(dt) == dt.wall - dt.off

\* dt.replace(tzinfo=_SRI_LANKA_TZ)
InSriLanka(dt) == Aware(dt.wall, SriLankaOffset)

\* a validator that lets one more day of future through
is_valid_date_lax(dt) ==
    /\ YearOf(dt.wall) >= MinYear
    /\ IF dt.aware
       THEN ~(Instant(dt) > dtNow + HalfHours(FutureDays + 1))
       ELSE ~(dt.wall > dtNow + SriLankaOffset + HalfHours(FutureDays + 1))

\* _is_valid_date: aware datetimes are compared with now as instants, naive ones with
\* the naive wall clock of Sri Lanka
is_valid_date(dt) ==
    IF YearOf(dt.wall) < MinYear THEN FALSE
    ELSE IF dt.aware
         THEN ~(Instant(dt) > dtNow + HalfHours(FutureDays))
         ELSE ~(dt.wall > dtNow + SriLankaOffset + HalfHours(FutureDays))

\* one level of the waterfall: the parsed datetime if it is valid, returned aware (a
\* naive one is stamped with the Sri Lanka zone), else None
LevelDate(dt) ==
    IF dt.some /\ is_valid_date(dt)
    THEN (IF dt.aware THEN dt ELSE InSriLanka(dt))
    ELSE NoDate

\* extract_date_waterfall: the first level that gives a date
RECURSIVE extract_date_waterfall(_)
extract_date_waterfall(levels) ==
    IF levels = <<>> THEN NoDate
    ELSE IF LevelDate(Head(levels)).some THEN LevelDate(Head(levels))
         ELSE extract_date_waterfall(Tail(levels))

\* the instants at which the functions are called: 2026-02-04 00:00, 15:00 and 23:30 UTC
DateNows == {HalfHours(YearStart(2026) + 34) + h : h \in {0, 30, 47}}

\* the utcoffsets of the aware datetimes parsed: UTC, Sri Lanka, -05:00
DateOffsets == {0, SriLankaOffset, -10}

\* wall clock readings around the two limits, for a clock at the given offset
DateWalls(off) ==
    {0, HalfHours(YearStart(MinYear)) - 1, HalfHours(YearStart(MinYear))}
    \cup {dtNow + off + d : d \in {HalfHours(1), HalfHours(2), HalfHours(2) + 1,
                                   HalfHours(3)}}

\* the datetimes a parse can give
DateInputs ==
    {Naive(w) : w \in DateWalls(SriLankaOffset)}
    \cup UNION {{Aware(w, off) : w \in DateWalls(off)} : off \in DateOffsets}

\* what each level can find: nothing, or a parsed datetime (meta tag, selector text,
\* url path, body text, RSS pubDate)
LevelInputs(k) ==
    {NoDate} \cup
    CASE k = 1 -> {Naive(0)}
      [] k = 2 -> {Naive(dtNow + SriLankaOffset + HalfHours(3))}
      [] k = 3 -> {Aware(dtNow + SriLankaOffset + HalfHours(1), SriLankaOffset)}
      [] k = 4 -> {Naive(dtNow + SriLankaOffset + HalfHours(2))}
      [] k = 5 -> {Aware(0, 0), Aware(dtNow + HalfHours(1), 0)}

\* the arguments of one call of the waterfall, level by level
WaterfallInputs ==
    {<<meta, selector, url, body, rss>> :
        meta \in LevelInputs(1), selector \in LevelInputs(2), url \in LevelInputs(3),
        body \in LevelInputs(4), rss \in LevelInputs(5)}

DatesUnused ==
    /\ dtNow = 0
    /\ dtCall = "none"
    /\ dtIn = <<>>
    /\ dtOut = [valid |-> FALSE, date |-> NoDate]

DatesStart ==
    /\ dtNow \in DateNows
    /\ dtCall = "none"
    /\ dtIn = <<>>
    /\ dtOut = [valid |-> FALSE, date |-> NoDate]

DatesFrame ==
    UNCHANGED <<scheduler, database, limiter, registry, sweep, crawl, ingest, flt, fill,
                texts>>

\* _is_valid_date(dt)
CallIsValidDate ==
    /\ \E dt \in DateInputs :
         /\ dtIn' = <<dt>>
         /\ dtOut' = [valid |-> is_valid_date(dt), date |-> NoDate]
    /\ dtCall' = "is_valid_date"
    /\ UNCHANGED dtNow
    /\ DatesFrame

\* extract_date_waterfall(meta_date, selector_date, url, body_text, rss_pub_date)
CallWaterfall ==
    /\ \E levels \in WaterfallInputs :
         /\ dtIn' = levels
         /\ dtOut' = [valid |-> FALSE, date |-> extract_date_waterfall(levels)]
    /\ dtCall' = "waterfall"
    /\ UNCHANGED dtNow
    /\ DatesFrame

NextDates ==
    \/ CallIsValidDate
    \/ CallWaterfall

----------------------------------------------------------------------------
\* text/normalize.py: normalize_text.  A text is a sequence of pieces: the ampersand,
\* the entity names amp, lt and nbsp, the letters x and e, the combining acute accent
\* (U+0301), the space and the line feed; a result can also hold the characters the
\* steps produce: the less-than sign, the no-break space (U+00A0) and the composed
\* letter e-acute (U+00E9).  No piece is part of a _MOJIBAKE_REPLACEMENTS key, so that
\* step changes none of these texts.

MaxTextLen == 4

TextPieces == {"&", "amp", "lt", "nbsp", "x", "e", "acute", " ", "LF"}

\* what re's \s matches among the characters above
Whitespace == {" ", "LF", "NBSP"}

\* html5 entity names that html.unescape resolves with or without a semicolon
EntityNames == {"amp", "lt", "nbsp"}

EntityChar(name) ==
    CASE name = "amp" -> "&"
      [] name = "lt" -> "<"
      [] name = "nbsp" -> "NBSP"

\* unicodedata.normalize("NFC", text): a letter and its combining accent compose
RECURSIVE NFC(_)
NFC(t) ==
    IF t = <<>> THEN <<>>
    ELSE IF Len(t) >= 2 /\ t[1] = "e" /\ t[2] = "acute"
         THEN <<"eacute">> \o NFC(SubSeq(t, 3, Len(t)))
         ELSE <<Head(t)>> \o NFC(Tail(t))

\* html.unescape: one pass from the left; the character a reference decodes to is
\* not scanned again
RECURSIVE Unescape(_)
Unescape(t) ==
    IF t = <<>> THEN <<>>
    ELSE IF Len(t) >= 2 /\ t[1] = "&" /\ t[2] \in EntityNames
         THEN <<EntityChar(t[2])>> \o Unescape(SubSeq(t, 3, Len(t)))
         ELSE <<Head(t)>> \o Unescape(Tail(t))

RECURSIVE DropWhitespace(_)
DropWhitespace(t) ==
    IF t # <<>> /\ Head(t) \in Whitespace THEN DropWhitespace(Tail(t)) ELSE t

\* re.sub(r"\s+", " ", text)
RECURSIVE Collapse(_)
Collapse(t) ==
    IF t = <<>> THEN <<>>
    ELSE IF Head(t) \in Whitespace
         THEN <<" ">> \o Collapse(DropWhitespace(t))
         ELSE <<Head(t)>> \o Collapse(Tail(t))

\* str.strip() of a collapsed text
Strip(t) ==
    LET lead == DropWhitespace(t)
    IN  IF lead # <<>> /\ lead[Len(lead)] \in Whitespace
        THEN SubSeq(lead, 1, Len(lead) - 1)
        ELSE lead

\* NFC, html.unescape, the mojibake table, then the whitespace collapse
normalize_text(t) == Strip(Collapse(Unescape(NFC(t))))

TextsUnused ==
    /\ txIn = <<>>
    /\ txOut = <<>>
    /\ txAgain = <<>>

TextsFrame ==
    UNCHANGED <<scheduler, database, limiter, registry, sweep, crawl, ingest, flt, fill,
                dates>>

\* normalize_text on a text one piece longer, and again on its result
CallNormalizeText ==
    /\ Len(txIn) < MaxTextLen
    /\ \E c \in TextPieces :
         /\ txIn' = Append(txIn, c)
         /\ txOut' = normalize_text(Append(txIn, c))
         /\ txAgain' = normalize_text(normalize_text(Append(txIn, c)))
    /\ TextsFrame

NextTexts == CallNormalizeText

----------------------------------------------------------------------------
\* The scheduler run

\* the reading of time.monotonic() when the run starts: the process has been up for
\* longer than any rate limit, while _last_request starts at 0.0
StartTime == 2

\* dead_links rows left by earlier runs: none, one that is due for a retry, one that
\* is still suppressed
InitDeadLinks ==
    { NoDeadLinks,
      [u \in {"a/1"} |-> DeadRow("a", 0, 0)],
      [u \in {"a/1"} |-> DeadRow("a", 5, 0)] }

SchedulerReset ==
    /\ now = StartTime
    /\ queue = [s \in Sources |-> <<>>]
    /\ active_count = [s \in Sources |-> 0]
    /\ items_scraped = [s \in Sources |-> 0]
    /\ errors = [s \in Sources |-> 0]
    /\ discovery_done = [s \in Sources |-> FALSE]
    /\ last_request = [s \in Sources |-> 0]
    /\ pc = [w \in Workers |-> IF w <= cfg.initial_concurrency THEN "pick" ELSE "none"]
    /\ cur = [w \in Workers |-> NoItem]
    /\ wake = [w \in Workers |-> 0]
    /\ res = [w \in Workers |-> "none"]
    /\ cancelReq = [w \in Workers |-> FALSE]
    /\ worker_tasks = [i \in 1 .. cfg.initial_concurrency |-> i]
    /\ total_scraped = 0
    /\ total_errors = 0
    /\ stopped = FALSE
    /\ db_lock = 0
    /\ existing_urls = [s \in Sources |-> {}]
    /\ existing_titles = [s \in Sources |-> {}]
    /\ counts = [s \in Sources |->
                   [inserted |-> 0, skipped_no_date |-> 0, skipped_duplicate |-> 0]]
    /\ enqueued = [s \in Sources |-> <<>>]
    /\ dispatched = [s \in Sources |-> <<>>]
    /\ hist = {}

SchedulerStart == cfg \in Configs /\ SchedulerReset

\* the same run under the wide configurations
SchedulerStartWide == cfg \in ConfigsWide /\ SchedulerReset

\* the database a run starts on
DatabaseStart ==
    /\ today = RunDay
    /\ articles = {}
    /\ dead_links \in InitDeadLinks

\* the discovery and run-level code is not exercised
OthersUnused == FillUnused /\ DatesUnused /\ TextsUnused

AsideUnused == CrawlUnused /\ IngestUnused /\ FilterUnused /\ OthersUnused

Init ==
    /\ SchedulerStart /\ DatabaseStart
    /\ LimiterUnused /\ RegistryUnused /\ SweepUnused /\ AsideUnused

Next ==
    \/ Tick
    \/ \E s \in Sources : DiscoverEnqueue(s)
    \/ \E s \in Sources : DiscoverNothing(s)
    \/ \E w \in Workers : PickAllDone(w)
    \/ \E w \in Workers : PickIdleSleep(w)
    \/ \E w \in Workers : PickCooldownSleep(w)
    \/ \E w \in Workers : PickDispatch(w)
    \/ \E w \in Workers : Wake(w)
    \/ \E w \in Workers : ScrapeFailed(w)
    \/ \E w \in Workers : ScrapeSucceeded(w)
    \/ \E w \in Workers : RemovedNoDate(w)
    \/ \E w \in Workers : RemovedLockBusy(w)
    \/ \E w \in Workers : RemovedDuplicate(w)
    \/ \E w \in Workers : RemovedInsert(w)
    \/ \E w \in Workers : AcquiredDuplicate(w)
    \/ \E w \in Workers : AcquiredInsert(w)
    \/ \E w \in Workers : InsertedNew(w)
    \/ \E w \in Workers : InsertedConflict(w)
    \/ \E w \in Workers : CancelledIdle(w)
    \/ \E w \in Workers : CancelledScraping(w)
    \/ \E w \in Workers : CancelledRemoving(w)
    \/ \E w \in Workers : CancelledInserting(w)
    \/ AutoscaleDown
    \/ AutoscaleUp
    \/ AutoscaleHold
    \/ RunEnd

Spec == Init /\ [][Next]_vars

\* a scheduler that is not running
SchedulerUnused ==
    /\ SchedulerStart
    /\ cfg = CHOOSE c \in Configs : c.initial_concurrency = 1

DatabaseEmpty ==
    /\ today = RunDay
    /\ articles = {}
    /\ dead_links = NoDeadLinks

InitWide ==
    /\ SchedulerStartWide /\ DatabaseEmpty
    /\ LimiterUnused /\ RegistryUnused /\ SweepUnused /\ AsideUnused

SpecWide == InitWide /\ [][Next]_vars

\* the same run on a database and a browser whose calls can raise
NextFaults ==
    \/ Next
    \/ \E w \in Workers : ScrapeRaised(w)
    \/ \E w \in Workers : InsertRaised(w)

SpecFaults == Init /\ [][NextFaults]_vars

\* everything one worker task can do next
WorkerStep(w) ==
    \/ PickAllDone(w) \/ PickIdleSleep(w) \/ PickCooldownSleep(w) \/ PickDispatch(w)
    \/ Wake(w)
    \/ ScrapeFailed(w) \/ ScrapeSucceeded(w)
    \/ RemovedNoDate(w) \/ RemovedLockBusy(w) \/ RemovedDuplicate(w) \/ RemovedInsert(w)
    \/ AcquiredDuplicate(w) \/ AcquiredInsert(w)
    \/ InsertedNew(w) \/ InsertedConflict(w)
    \/ CancelledIdle(w) \/ CancelledScraping(w) \/ CancelledRemoving(w)
    \/ CancelledInserting(w)

\* the event loop runs every task that can run: each worker task and each discovery
\* task gets its turn, awaited calls complete, the clock advances and run() is
\* resumed when its gather is over
Fairness ==
    /\ WF_vars(Tick)
    /\ \A s \in Sources : WF_vars(DiscoverEnqueue(s) \/ DiscoverNothing(s))
    /\ \A w \in Workers : WF_vars(WorkerStep(w))
    /\ WF_vars(RunEnd)

\* the run on a database without dead links
InitLive ==
    /\ Init
    /\ dead_links = NoDeadLinks

SpecLive == InitLive /\ [][Next]_vars /\ Fairness

\* the articles table that run starts on, left by an earlier run: source b's item and
\* one item of source a's feed, either the first, whose url and title keep items 1
\* and 2 off the queue, or the third
FullArticles ==
    { {[url |-> "b/1", source_id |-> "b", title |-> TitleSport], r} :
        r \in { [url |-> "a/1", source_id |-> "a", title |-> TitleEcon],
                [url |-> "a/3", source_id |-> "a", title |-> TitleShort] } }

InitFull ==
    /\ cfg \in ConfigsFull /\ SchedulerReset
    /\ today = RunDay /\ articles \in FullArticles /\ dead_links = NoDeadLinks
    /\ LimiterUnused /\ RegistryUnused /\ SweepUnused /\ AsideUnused

SpecFull == InitFull /\ [][Next]_vars

InitRL ==
    /\ SchedulerUnused /\ DatabaseEmpty
    /\ LimiterStart /\ RegistryUnused /\ SweepUnused /\ AsideUnused

SpecRL == InitRL /\ [][NextRL]_vars

InitDL ==
    SchedulerUnused /\ LimiterUnused /\ RegistryStart /\ SweepUnused /\ AsideUnused

SpecDL == InitDL /\ [][NextDL]_vars

SpecRecord == InitDL /\ [][NextRecord]_vars

InitNid ==
    SchedulerUnused /\ LimiterUnused /\ RegistryUnused /\ SweepStart /\ AsideUnused

InitCrawl ==
    /\ SchedulerUnused /\ DatabaseEmpty
    /\ LimiterUnused /\ RegistryUnused /\ SweepUnused
    /\ CrawlStart /\ IngestUnused /\ FilterUnused /\ OthersUnused

SpecCrawl == InitCrawl /\ [][NextCrawl]_vars

InitIngest ==
    /\ SchedulerUnused /\ DatabaseStart
    /\ LimiterUnused /\ RegistryUnused /\ SweepUnused
    /\ CrawlUnused /\ IngestStart /\ FilterUnused /\ OthersUnused

SpecIngest == InitIngest /\ [][NextIngest]_vars

InitFilter ==
    /\ SchedulerUnused /\ FilterStart
    /\ LimiterUnused /\ RegistryUnused /\ SweepUnused /\ CrawlUnused /\ IngestUnused
    /\ OthersUnused

SpecFilter == InitFilter /\ [][NextFilter]_vars

SpecNid == InitNid /\ [][NextNid]_vars

TypeOK ==
    /\ now \in 0 .. MaxTime
    /\ \A s \in Sources : active_count[s] >= 0
    /\ db_lock \in {0} \cup Workers
    /\ \A h \in hist : h.item \in Items /\ h.scraped \in ScrapeResults

InitFill ==
    /\ SchedulerUnused /\ DatabaseStart
    /\ LimiterUnused /\ RegistryUnused /\ SweepUnused
    /\ CrawlUnused /\ IngestUnused /\ FilterUnused /\ FillStart /\ DatesUnused
    /\ TextsUnused
    /\ Links(bfBatch) \cap get_all_dead_urls(dead_links, today, FillSource) = {}

SpecFill == InitFill /\ [][NextFill]_vars

InitDates ==
    /\ SchedulerUnused /\ DatabaseEmpty
    /\ LimiterUnused /\ RegistryUnused /\ SweepUnused
    /\ CrawlUnused /\ IngestUnused /\ FilterUnused /\ FillUnused /\ DatesStart
    /\ TextsUnused

SpecDates == InitDates /\ [][NextDates]_vars

InitTexts ==
    /\ SchedulerUnused /\ DatabaseEmpty
    /\ LimiterUnused /\ RegistryUnused /\ SweepUnused
    /\ CrawlUnused /\ IngestUnused /\ FilterUnused /\ FillUnused /\ DatesUnused
    /\ TextsUnused

SpecTexts == InitTexts /\ [][NextTexts]_vars

----------------------------------------------------------------------------
\* Properties of the scheduler

\* C1: in every reachable state of a run, whatever the autoscaler has spawned or
\* cancelled, each source's active_count is at most its max_concurrency
C1_ActiveWithinCap ==
    \A s \in Sources : active_count[s] <= cfg.max_concurrency[s]

\* a source at its cap with items still queued while another worker is alive
C1_Witness ==
    \E s \in Sources :
        /\ active_count[s] = cfg.max_concurrency[s]
        /\ queue[s] # <<>>
        /\ \E w \in Workers : pc[w] \in {"pick", "sleep"}

\* the sources whose gate is open: queued items, below the cap, and at least the rate
\* limit elapsed since the last granted slot
GateOpen ==
    {s \in Sources :
        /\ queue[s] # <<>>
        /\ active_count[s] < cfg.max_concurrency[s]
        /\ now - last_request[s] >= cfg.rate_limit[s]}

Evaluates(w) == pc[w] = "pick" /\ ~cancelReq[w] /\ pc'[w] # "pick"

\* C2: a worker that evaluates the pick policy while some source is ready dispatches
\* at once, and goes to sleep inside _pick_next only when no source is ready
C2_NoIdleWhileReady ==
    [][\A w \in Workers :
          Evaluates(w) =>
             /\ (GateOpen # {} => pc'[w] = "scrape")
             /\ (pc'[w] = "sleep" => GateOpen = {})]_vars

\* one worker scraping while another sleeps out a cooldown that has not ended
C2_Witness ==
    \E w, v \in Workers :
        /\ pc[w] = "scrape"
        /\ pc[v] = "sleep" /\ wake[v] > now

Dispatches(s) == dispatched'[s] # dispatched[s]

\* C3: a dispatch happens only with the source's gate open: the wait() made at
\* selection does not sleep, the slot is stamped with the time of the pick, and two
\* consecutive dispatches of one source are at least its rate limit apart
C3_DispatchAfterGate ==
    [][\A s \in Sources :
          Dispatches(s) =>
             /\ WaitSleep(cfg.rate_limit[s], last_request[s], now) = 0
             /\ last_request'[s] = now
             /\ (dispatched[s] # <<>> => now - last_request[s] >= cfg.rate_limit[s])]_vars

\* a source that has been dispatched twice
C3_Witness ==
    \E s \in Sources : Len(dispatched[s]) >= 2 /\ last_request[s] > StartTime

\* C5: per source, the items handed to workers are the items enqueued, in the order
\* of the enqueue, each once: what was enqueued is what was dispatched followed by
\* what is still queued
C5_PerSourceFifo ==
    \A s \in Sources : enqueued[s] = dispatched[s] \o queue[s]

\* two different items of one source dispatched while the other source has been
\* dispatched too
C5_Witness ==
    /\ \E s \in Sources :
          /\ Len(dispatched[s]) = 2
          /\ dispatched[s][1] # dispatched[s][2]
    /\ \A s \in Sources : dispatched[s] # <<>>

\* items whose scrape returned an article with a publication date and whose handling
\* has ended
ScrapedOk == {h.item : h \in {g \in hist : g.scraped = "ok"}}

\* two items of one source with different links and one normalized title longer
\* than TitleMinLen
SameTitle(i, j) ==
    /\ i # j
    /\ ItemTable[i].src = ItemTable[j].src
    /\ ItemTable[i].link # ItemTable[j].link
    /\ normalize_title(ItemTable[i].title) = normalize_title(ItemTable[j].title)
    /\ Len(normalize_title(ItemTable[i].title)) > TitleMinLen

\* items whose handling was ended by a cancellation
Cancelled == {h.item : h \in {g \in hist : g.end = "cancelled"}}

\* C6: of two same-title items of a source at most one is ever an article, and once
\* both have been scraped successfully and handled by workers that were not
\* cancelled, exactly one is an article and the other was counted as skipped_duplicate
C6_OneOfSameTitle ==
    \A i, j \in Items :
        SameTitle(i, j) =>
            LET both == {ItemTable[i].link, ItemTable[j].link} \cap ArticleUrls(articles)
            IN  /\ Cardinality(both) <= 1
                /\ ({i, j} \subseteq ScrapedOk \ Cancelled =>
                      /\ Cardinality(both) = 1
                      /\ counts[ItemTable[i].src].skipped_duplicate >= 1)

\* C8: every url whose scrape ended in an error has a dead_links row
C8_ErrorLeavesDeadLink ==
    \A h \in hist :
        h.end = "error" => ItemTable[h.item].link \in DOMAIN dead_links

\* C9: a url whose scrape returned an article has no dead_links row once the worker
\* is through with it
C9_SuccessClearsDeadLink ==
    \A h \in hist :
        h.scraped \in {"ok", "nodate"} => ItemTable[h.item].link \notin DOMAIN dead_links

\* C12: a worker stopped by a scale-down finishes the item it dequeued: every
\* dequeued item has reached an outcome (inserted, skipped or error) when its worker
\* exits, none is given up half way
C12_ScaleDownFinishesItem ==
    \A h \in hist : h.end \in {"error", "no_date", "duplicate", "inserted", "conflict"}

\* C13: the number of live worker tasks never exceeds the hard cap MAX_WORKERS,
\* whatever the configured initial concurrency and whatever the autoscaler did
C13_WorkersWithinHardCap == ActiveWorkers <= MAX_WORKERS

\* C14: no step adds workers while the error rate the autoscaler computes is at or
\* above 30%: under errors the pool only shrinks, down to one worker, and stays there
C14_NoScaleUpUnderErrors ==
    [][ErrorRateHigh => ActiveWorkers' <= ActiveWorkers]_vars

\* C21: a failure while one item is processed never ends the run early: when the run
\* is over every item that was enqueued has been handed to a worker
C21_FailureIsLocal ==
    stopped => \A s \in Sources : dispatched[s] = enqueued[s]

\* the rows of dead_links after a step that were not there, as they are, before it
WrittenDeadLinks ==
    {u \in DOMAIN dead_links' : u \notin DOMAIN dead_links \/ dead_links'[u] # dead_links[u]}

\* the step counts an item as skipped for its missing date or as a duplicate
CountsSkip ==
    \E s \in Sources :
        \/ counts'[s].skipped_no_date > counts[s].skipped_no_date
        \/ counts'[s].skipped_duplicate > counts[s].skipped_duplicate

\* C22: only a step that counts a scrape error inserts or updates a dead_links row; a
\* step that counts an item as skipped (no date) or as a duplicate (title match or
\* conflict on insert) writes no dead_links row and inserts no article
C22_OnlyErrorsWriteDeadLinks ==
    [][/\ WrittenDeadLinks # {} => errors' # errors
       /\ CountsSkip => (WrittenDeadLinks = {} /\ articles' = articles)]_vars

\* on a database that holds a dead_links row one item has ended without a date,
\* another as a duplicate, and one has been inserted
C22_Witness ==
    /\ \E h \in hist : h.end = "no_date"
    /\ \E h \in hist : h.end \in {"duplicate", "conflict"}
    /\ \E s \in Sources : counts[s].skipped_duplicate > 0
    /\ articles # {}
    /\ DOMAIN dead_links # {}

\* the items whose normalized title is too short to be a dedup key
ShortTitled == {i \in Items : Len(normalize_title(ItemTable[i].title)) <= TitleMinLen}

\* the filter of _discover_and_enqueue as it would run in this state, by url alone
PassesByUrl(i) ==
    LET s == ItemTable[i].src
    IN  /\ ItemTable[i].link \notin get_all_source_urls(articles, s)
        /\ ItemTable[i].link \notin get_all_dead_urls(dead_links, today, s)
        /\ ~ShouldSkipUrl(ItemTable[i].link)

\* C23: a title that normalizes to 10 characters or fewer is no dedup key: such a
\* candidate passes the filter before enqueue whenever its url does, whatever titles
\* the source holds, and once scraped with a date it is never counted a duplicate by
\* title under db_lock
C23_ShortTitleIsNoKey ==
    /\ \A i \in ShortTitled :
         PassesByUrl(i) <=>
             PassesFilter(i, get_all_source_urls(articles, ItemTable[i].src),
                          get_all_dead_urls(dead_links, today, ItemTable[i].src),
                          RecentTitleSet(articles, ItemTable[i].src))
    /\ \A h \in hist : h.item \in ShortTitled => h.end # "duplicate"

\* two candidates of one source with different urls and the same short title have
\* both been inserted by the run
C23_Witness ==
    \E h, g \in hist :
        /\ h.item \in ShortTitled /\ g.item \in ShortTitled
        /\ ItemTable[h.item].link # ItemTable[g.item].link
        /\ ItemTable[h.item].src = ItemTable[g.item].src
        /\ normalize_title(ItemTable[h.item].title) = normalize_title(ItemTable[g.item].title)
        /\ h.end = "inserted" /\ g.end = "inserted"
        /\ {ItemTable[h.item].link, ItemTable[g.item].link} \subseteq ArticleUrls(articles)

\* (priority, items_scraped) of s is not above that of t
KeyAtMost(s, t) ==
    \/ cfg.priority[s] < cfg.priority[t]
    \/ (cfg.priority[s] = cfg.priority[t] /\ items_scraped[s] <= items_scraped[t])

\* C27: the source a pick dispatches has the least (priority, items_scraped) pair of
\* the sources whose gate is open at that pick
C27_PicksLeastKey ==
    [][\A s \in Sources : Dispatches(s) => \A t \in GateOpen : KeyAtMost(s, t)]_vars

\* source b has just been dispatched at equal priority while source a, which has
\* scraped more, has its gate open too
C27_Witness ==
    /\ cfg.priority["a"] = cfg.priority["b"]
    /\ \E w \in Workers : pc[w] = "scrape" /\ cur[w].src = "b"
    /\ last_request["b"] = now
    /\ dispatched["b"] = enqueued["b"] /\ Len(dispatched["b"]) = 1
    /\ queue["a"] # <<>>
    /\ active_count["a"] < cfg.max_concurrency["a"]
    /\ now - last_request["a"] >= cfg.rate_limit["a"]
    /\ items_scraped["a"] > items_scraped["b"]

\* the worker leaves _pick_next with None and returns
ExitsBySentinel(w) == pc[w] = "pick" /\ ~cancelReq[w] /\ pc'[w] = "done"

\* C28: a worker exits through the sentinel only when every queue is empty and every
\* source has discovery_done set
C28_SentinelOnlyWhenAllDone ==
    [][\A w \in Workers :
          ExitsBySentinel(w) =>
              \A s \in Sources : queue[s] = <<>> /\ discovery_done[s]]_vars

\* a run without a single error, hence without a cancellation, has ended after both
\* sources had their items handed out: every worker left through the sentinel
C28_Witness ==
    /\ stopped
    /\ SumErrors = 0
    /\ \A s \in Sources : enqueued[s] # <<>> /\ dispatched[s] = enqueued[s]
    /\ \A w \in Workers : pc[w] \in {"none", "done"}

\* the autoscaler runs its tick in this step: with a high error rate the window's
\* counters move
ScaleTick == total_errors' # total_errors

\* the live workers that no cancel() has been called on, after the step
UncancelledAfter == {w \in Workers : pc'[w] \notin {"none", "done"} /\ ~cancelReq'[w]}

\* C29: a tick that finds the error rate at 30% or more and more than one live worker
\* leaves exactly max(1, active \div 2) workers uncancelled and starts none
C29_ScaleDownToHalf ==
    [][(ScaleTick /\ ErrorRateHigh /\ ActiveWorkers > 1) =>
          /\ Cardinality(UncancelledAfter) = Max(1, ActiveWorkers \div 2)
          /\ \A w \in Workers : pc[w] = "none" => pc'[w] = "none"]_vars

C33_EveryItemAccounted ==
    \A s \in Sources :
        active_count[s] = 0 =>
            items_scraped[s] = counts[s].inserted + counts[s].skipped_no_date
                               + counts[s].skipped_duplicate + errors[s]

\* a worker sleeps a cooldown that ends after the last instant the model follows
BeyondHorizon == \E w \in Workers : pc[w] = "sleep" /\ wake[w] > MaxTime

\* run() has returned with nothing left: no queued item, no scrape in flight
Drained == \A s \in Sources : queue[s] = <<>> /\ active_count[s] = 0

\* C34: a run whose discovery tasks end and whose awaited calls complete returns in
\* the end (as far as the model follows the clock), and when it has returned every
\* queue is empty and every active_count is 0
C34_RunTerminatesDrained ==
    /\ <>(stopped \/ BeyondHorizon)
    /\ [](stopped => Drained)

\* run() has returned after both sources were discovered and items were dispatched
C34_Witness ==
    /\ stopped
    /\ cfg.initial_concurrency >= 1
    /\ \A s \in Sources : discovery_done[s] /\ cfg.max_concurrency[s] >= 1
    /\ \E s \in Sources : Len(dispatched[s]) >= 2
    /\ Drained

\* the worker tasks that are alive and that no cancel() has been called on
Uncancelled == {w \in Workers : IsLive(w) /\ ~cancelReq[w]}

\* C35: while a queue holds an item or a discovery is pending, the run has not
\* returned and at least one worker task is alive that scale-down has not cancelled
C35_WorkerWhileWorkRemains ==
    ~AllDone => (~stopped /\ Uncancelled # {})

\* the sources whose discovery has ended without enqueueing anything: it found
\* nothing, or it raised
DiscoveredNothing == {s \in Sources : discovery_done[s] /\ enqueued[s] = <<>>}

\* C37: a discovery that ends, by an exception or not, marks its own source
\* discovery_done and leaves the run, the workers and every other source's flag and
\* queue as they were; eventually every source is marked and the run has ended (or
\* the clock has passed the modelled horizon)
C37_FailedDiscoveryIsMarked ==
    /\ [][\A s \in Sources :
             discovery_done'[s] # discovery_done[s] =>
                /\ discovery_done'[s]
                /\ stopped' = stopped
                /\ pc' = pc
                /\ \A t \in Sources \ {s} :
                      /\ discovery_done'[t] = discovery_done[t]
                      /\ queue'[t] = queue[t]]_vars
    /\ <>(/\ \A s \in Sources : discovery_done[s]
          /\ stopped \/ BeyondHorizon)

\* the run has returned: the discovery of one source ended without enqueueing, the
\* items of another source were dispatched, and nothing is left queued or active
C37_Witness ==
    /\ stopped
    /\ DiscoveredNothing # {}
    /\ \E t \in Sources \ DiscoveredNothing : Len(dispatched[t]) >= 1
    /\ Drained

\* the links of a sequence of items, in order
LinkSeq(items) == [i \in DOMAIN items |-> ItemTable[items[i]].link]

\* no value stands at two places of the sequence
NoRepeat(q) == \A i, j \in DOMAIN q : q[i] = q[j] => i = j

\* C38: within one run no url is enqueued twice and none is dispatched twice for a
\* source
C38_NoUrlScrapedTwice ==
    \A s \in Sources :
        /\ NoRepeat(LinkSeq(enqueued[s]))
        /\ NoRepeat(LinkSeq(dispatched[s]))

\* C39: once run() has returned no worker task is alive, whether run() started it
\* or the autoscaler did and whether or not it was cancelled, and the autoscaler is
\* over: no task is spawned, cancelled or pruned, no worker takes a step and the
\* autoscaler's counters stay
C39_NothingLeaked ==
    [][stopped' =>
          /\ \A w \in Workers : ~IsLive(w)'
          /\ stopped =>
                /\ pc' = pc
                /\ worker_tasks' = worker_tasks
                /\ cancelReq' = cancelReq
                /\ total_scraped' = total_scraped
                /\ total_errors' = total_errors]_vars

\* run() has returned after the autoscaler had spawned a worker and had cancelled a
\* worker in the middle of an item: both tasks are done
C39_Witness ==
    /\ stopped
    /\ \E w \in Workers : w > cfg.initial_concurrency /\ pc[w] = "done"
    /\ \E h \in hist : h.end = "cancelled"

----------------------------------------------------------------------------
\* Properties of the rate limiter

\* the callers that are inside the async with block of wait()
RLInside == {c \in RLCallers : rlPc[c] = "sleep" \/ (rlPc[c] = "queued" /\ rlLock = c)}

\* C4: whatever the number of concurrent callers of wait(), at most one is inside the
\* lock, it is the holder of the lock, and any two successive returns of wait() are at
\* least the delay apart
C4_OneAtATimeSpaced ==
    /\ Cardinality(RLInside) <= 1
    /\ \A c \in RLCallers : rlPc[c] = "sleep" => rlLock = c
    /\ \A k \in 2 .. Len(rlReturns) : rlReturns[k] - rlReturns[k - 1] >= rlDelay

\* a caller sleeping in the lock with two more queued behind it, after two returns
\* exactly the delay apart
C4_Witness ==
    /\ \E c \in RLCallers : rlPc[c] = "sleep"
    /\ Len(rlWaiters) = 2
    /\ \E k \in 2 .. Len(rlReturns) : rlReturns[k] - rlReturns[k - 1] = rlDelay

----------------------------------------------------------------------------
\* Properties of the database

\* C7: no url is at once an article and a dead_links row that is within its backoff
\* or permanent
C7_NoArticleWithLiveDeadLink ==
    \A u \in ArticleUrls(articles) :
        u \in DOMAIN dead_links => ~IsSuppressed(dead_links[u], today)

\* the backoff schedule in days, by retry_count
BackoffDays == <<7, 14, 30>>

\* a row is suppressed on a day: permanent, or still inside the backoff of its
\* retry_count
WithinBackoff(row, day) ==
    \/ row.retry_count >= 3
    \/ /\ row.retry_count \in {0, 1, 2}
       /\ day < row.first_failed_at + BackoffDays[row.retry_count + 1]

\* C10: the set a dead-link query returns on a day holds exactly the asked urls of
\* the source whose row is permanent (retry_count >= 3) or within the backoff of its
\* retry_count, 7, 14 and 30 days after first_failed_at
C10_SuppressedIffBackoff ==
    [][dlAnswer' # dlAnswer =>
          dlAnswer'.urls =
             {u \in DOMAIN dead_links \cap dlAnswer'.among :
                 /\ dead_links[u].source_id = dlAnswer'.source
                 /\ WithinBackoff(dead_links[u], today)}]_vars

\* a query answered on the day a first backoff ends: the row that has just left its
\* backoff is not returned, a row in its 30-day backoff is
C10_Witness ==
    /\ dlAnswer.kind = "some"
    /\ \E u, v \in dlAnswer.among \cap DOMAIN dead_links :
          /\ dead_links[u].source_id = dlAnswer.source
          /\ dead_links[u].retry_count = 0
          /\ today = dead_links[u].first_failed_at + 7
          /\ u \notin dlAnswer.urls
          /\ dead_links[v].retry_count = 2
          /\ v \in dlAnswer.urls

\* C40: record_dead_link(source, url, error_type) on a url that has a row adds 1 to
\* its retry_count, sets its error_type to the one passed and its last_checked_at to
\* the day of the call, and keeps its first_failed_at and source_id; on a url without
\* a row it creates the row with retry_count 0; every other row stays as it was and
\* no row disappears
C40_RecordDeadLinkFrame ==
    [][dead_links' # dead_links =>
          \E u \in dlAnswer'.among :
              /\ dlAnswer'.kind = "record"
              /\ DOMAIN dead_links' = DOMAIN dead_links \cup {u}
              /\ \A v \in DOMAIN dead_links \ {u} : dead_links'[v] = dead_links[v]
              /\ dead_links'[u].error_type = dlAnswer'.error_type
              /\ dead_links'[u].last_checked_at = today
              /\ IF u \in DOMAIN dead_links
                 THEN /\ dead_links'[u].retry_count = dead_links[u].retry_count + 1
                      /\ dead_links'[u].first_failed_at = dead_links[u].first_failed_at
                      /\ dead_links'[u].source_id = dead_links[u].source_id
                 ELSE /\ dead_links'[u].retry_count = 0
                      /\ dead_links'[u].first_failed_at = today
                      /\ dead_links'[u].source_id = dlAnswer'.source]_vars

\* a failure was recorded again on a later day with another error type, next to
\* the row of another url: the row has retry_count 2 or more, the new error type and
\* day, and its first_failed_at is still the first day
C40_Witness ==
    /\ dlAnswer.kind = "record"
    /\ DOMAIN dead_links = RegistryUrls
    /\ \E u \in dlAnswer.among :
          /\ dead_links[u].retry_count >= 2
          /\ dead_links[u].error_type = "404"
          /\ dead_links[u].error_type = dlAnswer.error_type
          /\ dead_links[u].last_checked_at = today
          /\ dead_links[u].first_failed_at = FirstDay
          /\ today > FirstDay
          /\ dead_links[u].source_id # dlAnswer.source

----------------------------------------------------------------------------
\* Properties of the nid sweep

\* C15: once max_consecutive_404 misses in a row have been counted no further nid
\* is navigated to, whatever the concurrency: a task starts its navigation only while
\* the count of successive misses is below the threshold
C15_NoNavigationAfterAbort ==
    [][\A n \in Nids :
          (nidPc[n] = "wait" /\ nidPc'[n] = "scrape") => nid404 < NidMax404]_vars

\* the nids whose page redirected to another url than the one asked for
Redirected == {n \in Nids : nidFinal[n] # "" /\ nidFinal[n] # PatternUrl(n)}

\* C16: when a swept page redirected, the insert stores one article, under the
\* canonical url; the pattern url does not become an article url, and the in-memory
\* set of known urls holds the canonical url after the insert
C16_StoredUnderCanonical ==
    [][\A n \in Redirected :
          (nidPc[n] = "insert" /\ nidPc'[n] = "done" /\ articles' # articles) =>
              /\ articles' \ articles =
                    {[url |-> nidFinal[n], source_id |-> SweepSource,
                      title |-> TitleSport]}
              /\ PatternUrl(n) \notin ArticleUrls(articles')
              /\ nidFinal[n] \in nidExisting']_vars

\* a redirected nid has been inserted: its canonical url is an article of the swept
\* source and a known url, its pattern url is not
C16_Witness ==
    \E n \in Redirected :
        /\ nidPc[n] = "done"
        /\ nidCounts.inserted >= 1
        /\ \E r \in articles : r.url = nidFinal[n] /\ r.source_id = SweepSource
        /\ nidFinal[n] \in nidExisting
        /\ PatternUrl(n) \notin ArticleUrls(articles)

\* the tasks that are suspended on insert_article
NidInserting == {n \in Nids : nidPc[n] = "insert"}

\* C36: of the tasks whose pages ended on one canonical url at most one is inside
\* insert_article at a time, and it is there with db_lock and with a canonical url
\* that is not yet a known url; when it comes back, either one article was stored
\* under the canonical url, inserted is one more and the url is known, or nothing was
\* stored and skipped is one more
C36_OneInsertPerCanonicalUrl ==
    [][/\ \A n, m \in NidInserting' :
             nidFinal'[n] = nidFinal'[m] => n = m
       /\ \A n \in NidInserting' : nidLock' = n
       /\ \A n \in Nids :
             (nidPc[n] = "insert" /\ nidPc'[n] = "done") =>
                IF nidFinal[n] \in ArticleUrls(articles)
                THEN /\ articles' = articles
                     /\ nidCounts' = [nidCounts EXCEPT !.skipped = @ + 1]
                ELSE /\ Cardinality(articles') = Cardinality(articles) + 1
                     /\ nidFinal[n] \in ArticleUrls(articles') \cap nidExisting'
                     /\ nidCounts' = [nidCounts EXCEPT !.inserted = @ + 1]]_vars

\* nids 1 and 2 were redirected to one canonical url: one of them is inside
\* insert_article and the other waits for db_lock
C36_OneWaitsForLock ==
    \E n, m \in Redirected :
        /\ n # m
        /\ nidFinal[n] = nidFinal[m]
        /\ nidPc[n] = "insert"
        /\ nidPc[m] = "lock"

\* both were redirected to one canonical url and both have returned: one article is
\* stored under it, one task was counted as inserted and one as skipped
C36_Witness ==
    \E n, m \in Redirected :
        /\ n # m
        /\ nidFinal[n] = nidFinal[m]
        /\ nidPc[n] = "done" /\ nidPc[m] = "done"
        /\ nidRes[n] = "ok" /\ nidRes[m] = "ok"
        /\ nidCounts.inserted = 1 /\ nidCounts.skipped >= 1

----------------------------------------------------------------------------
\* Properties of the archive crawl

\* the sections whose loop ended before min(pages, max_pages) pages
Abandoned == {k \in DOMAIN crDone : Len(crDone[k].log) < SectionPages(k)}

\* the pages of a log that loaded: a failed page gave no list of links at all
Loaded(log) == SelectSeq(log, LAMBDA e : e # "failed")

\* the number of loaded pages at the end of a log that held links, none of them new
RECURSIVE TrailingOld(_)
TrailingOld(log) ==
    IF log = <<>> \/ log[Len(log)] # "old" THEN 0
    ELSE 1 + TrailingOld(SubSeq(log, 1, Len(log) - 1))

\* C17 as amended: a section is abandoned before min(pages, max_pages) pages only
\* on a page without any link, or on the third loaded page in a row whose links
\* were all seen before; the count of such pages restarts at zero with every page
\* that yields a new link and is below three while the section goes on
C17_AbandonedOnlyWhenDry ==
    /\ \A k \in Abandoned :
          \/ /\ crDone[k].stop = "nolinks"
             /\ crDone[k].log[Len(crDone[k].log)] = "nolinks"
          \/ /\ crDone[k].stop = "empty"
             /\ TrailingOld(Loaded(crDone[k].log)) = EmptyPagesStop
    /\ crEmpty = TrailingOld(Loaded(crLog))
    /\ crEmpty < EmptyPagesStop

\* a section abandoned on its third page of old links in a row, after an earlier
\* page of old links was followed by a page with new links
C17_Witness ==
    \E k \in Abandoned :
        /\ crDone[k].stop = "empty"
        /\ \E i, j \in DOMAIN crDone[k].log :
              /\ i < j
              /\ crDone[k].log[i] = "old"
              /\ crDone[k].log[j] = "new"

\* C17 as stated: a section is abandoned before min(pages, max_pages) pages only
\* after three consecutive pages that each yielded zero new links
C17_AbandonedOnlyAfterThree ==
    \A k \in Abandoned :
        LET log == crDone[k].log
        IN  /\ Len(log) >= 3
            /\ \A i \in (Len(log) - 2) .. Len(log) : log[i] # "new"

----------------------------------------------------------------------------
\* Properties of the ingest runs

\* C11: a url that has failed on every attempt is scraped at most four times over
\* all runs, the first attempt and three retries: after its fourth failure it is
\* suppressed for good and no run scrapes it again
C11_FailingUrlScrapedAtMostFour ==
    \A u \in Urls : inFailed[u] = inTried[u] => inTried[u] <= PermanentAfter + 1

\* a run that starts and returns in this step
ReturnsAtOnce == ~inRun.active /\ inRuns' = inRuns + 1 /\ ~inRun'.active

\* C19: a run over a feed whose items are all articles of the source already
\* inserts nothing, leaves the articles table as it is and reports each replayed
\* item as skipped_duplicate
C19_ReplaySkipsAll ==
    [][(/\ ReturnsAtOnce
        /\ inSummary'.feed # <<>>
        /\ Links(inSummary'.feed) \subseteq get_all_source_urls(articles, IngestSource))
       => /\ inSummary'.counts.inserted = 0
          /\ articles' = articles
          /\ inSummary'.counts.skipped_duplicate = Len(inSummary'.feed)]_vars

\* C20: a run whose connection to the browser failed returns an error result,
\* never a summary of counts
C20_ConnectFailureIsReported ==
    (inSummary.kind # "none" /\ ~inSummary.connected) => inSummary.kind = "error"

\* C31: two scrapes of one url in a row that both give nothing are at least 7 days
\* apart, over all runs
C31_FailedRetryAfterBackoff ==
    [][\A u \in Urls :
          (inFailed'[u] # inFailed[u] /\ inFailDay[u] # 0) =>
             today - inFailDay[u] >= Backoff0]_vars

----------------------------------------------------------------------------
\* Properties of the discovery filters

\* C18: on every discovery path each candidate that goes on to be scraped has a url
\* that does not match the skip patterns, is not an article of the source, is not a
\* suppressed dead link, and a normalized title (longer than 10) that is not among
\* the source's recent titles
C18_SamePostFilter ==
    \A p \in FilterPaths :
        \A k \in DOMAIN flt[p].scrape :
            LET c == flt[p].scrape[k]
            IN  /\ ~ShouldSkipUrl(c.link)
                /\ c.link \notin get_all_source_urls(articles, SweepSource)
                /\ c.link \notin get_all_dead_urls(dead_links, today, SweepSource)
                /\ ~IsTitleDuplicate(normalize_title(c.title),
                                     RecentTitleSet(articles, SweepSource))

----------------------------------------------------------------------------
\* Properties of the backfill scrape phase

\* C24: no two articles of the source with different urls have the same normalized
\* title of more than 10 characters, however the _scrape_one tasks interleave
C24_NoTwoOfSameTitleLand ==
    \A r, q \in articles :
        (/\ r.source_id = q.source_id /\ r.url # q.url
         /\ Len(normalize_title(r.title)) > TitleMinLen)
        => normalize_title(r.title) # normalize_title(q.title)

----------------------------------------------------------------------------
\* Properties of the date functions

\* the instant a datetime stands for, a naive one being read on Sri Lanka's clock
InstantOf(dt) == IF dt.aware THEN Instant(dt) ELSE dt.wall - SriLankaOffset

\* year >= 2006 and not later than now + 2 days
InRange(dt) ==
    /\ dt.wall >= HalfHours(YearStart(2006))
    /\ InstantOf(dt) <= dtNow + HalfHours(2)

\* C25: the validator accepts a datetime if and only if its year is 2006 or later and
\* it is not later than now + 2 days, and every date the waterfall returns is in that
\* range
C25_ValidIffInRange ==
    /\ dtCall = "is_valid_date" => (dtOut.valid <=> InRange(dtIn[1]))
    /\ (dtCall = "waterfall" /\ dtOut.date.some) => InRange(dtOut.date)

\* the waterfall has returned the date of its last level, now + 1 day, after an epoch
\* date and a date of now + 3 days were turned down
C25_Witness ==
    /\ dtCall = "waterfall"
    /\ dtIn[1] = Naive(0)
    /\ dtIn[2] = Naive(dtNow + SriLankaOffset + HalfHours(3))
    /\ dtIn[3] = NoDate /\ dtIn[4] = NoDate
    /\ dtOut.date = Aware(dtNow + HalfHours(1), 0)

----------------------------------------------------------------------------
\* Properties of the text normalization

\* the only whitespace of a text is the ASCII space, never twice in a row
SingleSpaced(t) ==
    /\ \A i \in DOMAIN t : t[i] \in Whitespace => t[i] = " "
    /\ \A i \in DOMAIN t : (i > 1 /\ t[i] = " ") => t[i - 1] # " "

\* C26: normalize_text is idempotent, and its result holds no whitespace but single
\* ASCII spaces
C26_NormalizeTextIdempotent ==
    /\ txAgain = txOut
    /\ SingleSpaced(txOut)

====
